---- MODULE Spec2Model ----
(***************************************************************************)
(* Usage metering of Server_Audria: the billing engine                     *)
(* (app/services/billing_service.py) over the user_subscriptions,          *)
(* usage_log, token_pricing and subscription_tiers tables, the request     *)
(* handlers that call it, and the in-process job timeout registry.         *)
(*                                                                         *)
(* Units.  Money is kept in thousandths of a dollar (the 3 decimals the    *)
(* code rounds to); an unrounded product tokens * rate is in millionths.   *)
(* A billing period "YYYY-MM" is the pair <<year, month>>, a date is the   *)
(* triple <<year, month, day>>.  Row ids are positions in the table, which *)
(* is also the order of created_at.                                        *)
(***************************************************************************)
EXTENDS Integers, Sequences, FiniteSets, TLC

(***************************************************************************)
(* Bounds of the model.                                                    *)
(***************************************************************************)
MaxMonths == 2      \* calendar months the clock walks through
MaxCharges == 2     \* usage_log rows written in one behaviour
MaxRows == 2        \* user_subscriptions rows created in one behaviour
MaxCalls == 2       \* service calls in flight at the same time
MaxTicks == 2       \* seconds the monotonic clock walks through
MaxChunks == 1      \* content chunks a response stream delivers
MaxTime == 2        \* half microseconds time.time() walks through
MaxMessages == 2    \* messages handed to the queue by its callers directly

(***************************************************************************)
(* Program constants.                                                      *)
(***************************************************************************)
FreeTokenLimit == 1000
ProTokenLimit == 1000000
EnterpriseTokenLimit == 10000000
max_retries == 3
SeedUsdPer1k == 20          \* 0.02 USD per 1000 tokens, in thousandths

\* the day the model's calendar starts on (a December, so that the month
\* that follows is in another year)
FirstDay == <<2025, 12, 15>>

\* settings.ingestion_api_timeout, in seconds (deployment configuration)
ingestion_api_timeout == 2
orchestrator_timeout == 1
precedent_retrieval_api_timeout == 2

NULL == "NULL"

Users == {"u1"}
JobIds == {"job1"}
Calls == 1 .. MaxCalls
StripeStatuses == {"active", "canceled", "incomplete", "incomplete_expired",
                   "past_due", "trialing", "unpaid", "paused"}

ACTIVE == "active"
INACTIVE == "inactive"
EXPIRED == "expired"
CANCELED == "canceled"
LIMIT_REACHED == "limit_reached"

(***************************************************************************)
(* Reference data.                                                         *)
(***************************************************************************)
\* subscription_tiers as seeded by the migration; "Basic" has no tier row
subscription_tiers ==
    << [plan_name |-> "Free", token_limit |-> FreeTokenLimit],
       [plan_name |-> "Pro", token_limit |-> ProTokenLimit],
       [plan_name |-> "Enterprise", token_limit |-> EnterpriseTokenLimit] >>

\* token_pricing tables a deployment can start with: the seeded rate with a
\* later rate change, and the seeded row soft-deleted before the new rate
\* becomes effective (nothing applicable in the first month)
PricingTables ==
    { << [usd_per_1k_tokens |-> SeedUsdPer1k, effective_date |-> 0, is_deleted |-> FALSE],
         [usd_per_1k_tokens |-> 30, effective_date |-> 1, is_deleted |-> FALSE] >>,
      << [usd_per_1k_tokens |-> SeedUsdPer1k, effective_date |-> 0, is_deleted |-> TRUE],
         [usd_per_1k_tokens |-> 30, effective_date |-> 1, is_deleted |-> FALSE] >> }

VARIABLES
    clock,                \* months elapsed since the first month
    token_pricing,        \* table token_pricing
    user_subscriptions,   \* table user_subscriptions (sequence of rows)
    usage_log,            \* table usage_log (sequence of rows)
    resp,                 \* what the most recent call did and returned
    audit,                \* per account row: unrounded charges since reset
    hit,                  \* per user: did log_usage flip the limit this month
    agent_jobs,           \* the external ingestion agent's jobs
    job_timeout_registry, \* JobTimeoutRegistry._entries
    monotonic,            \* time.monotonic(), in seconds
    dispatched,           \* requests sent to an external agent so far
    calls,                \* service calls in flight, one per slot
    active_connections,   \* WebSocketManager.active_connections (its keys)
    user_stream_tasks,    \* WebSocketManager.user_stream_tasks: user -> task
    streams,              \* the stream tasks created so far, by task number
    handler,              \* per user: the message handler of the connection
    ws_sent,              \* events sent to users' connections so far
    time_time,            \* time.time(), in half microseconds
    queue,                \* MessageQueue.queue
    stats,                \* MessageQueue.stats
    is_running,           \* MessageQueue.is_running
    worker,               \* the worker tasks created so far; the last is worker_task
    messages,             \* table messages
    shutdown              \* the call of MessageQueue.stop()

job_vars == <<agent_jobs, job_timeout_registry, monotonic, dispatched>>

ledger_vars == <<clock, token_pricing, user_subscriptions, usage_log, resp, audit,
                 hit, calls>>

chat_vars == <<active_connections, user_stream_tasks, streams, handler, ws_sent,
               time_time>>

queue_vars == <<queue, stats, is_running, worker, messages, shutdown>>

vars == <<clock, token_pricing, user_subscriptions, usage_log, resp, audit, hit,
          agent_jobs, job_timeout_registry, monotonic, dispatched, calls,
          active_connections, user_stream_tasks, streams, handler, ws_sent,
          time_time, queue, stats, is_running, worker, messages, shutdown>>

\* no task under a user's name; a handler between two messages; the queue
\* before any start() and stop()
NoTask == 0
IdleHandler == [pc |-> "idle", format |-> NULL, conversation_id |-> NULL, prompt |-> 0]
NoMessage == [conversation_id |-> NULL, role |-> NULL, content |-> <<NULL, 0>>,
              created_at |-> 0, retry_count |-> 0, attempts |-> 0]
NoShutdown == [pc |-> "none", task |-> 0, message |-> NoMessage, ran |-> FALSE]
WorkerTasks == {1, 2}    \* the worker tasks start() creates, in this order
NoTime == -1
Conversations == {"c1"}
Prompts == {1, 2}    \* prompt A and prompt B of a user, in this order

(***************************************************************************)
(* Time.                                                                   *)
(***************************************************************************)
\* datetime.utcnow() at clock value t
utcnow(t) ==
    LET m == (FirstDay[2] - 1) + t
    IN <<FirstDay[1] + (m \div 12), (m % 12) + 1, FirstDay[3]>>

\* now.strftime("%Y-%m")
strftime_Ym(d) == <<d[1], d[2]>>

get_current_billing_period(t) == strftime_Ym(utcnow(t))

get_billing_period_start_date(billing_period) ==
    <<billing_period[1], billing_period[2], 1>>

(***************************************************************************)
(* crud: token_pricing, subscription_tiers.                                *)
(***************************************************************************)
\* get_current_pricing without the is_deleted filter
get_current_pricing_with_deleted(pricing, t) ==
    LET ok == {i \in DOMAIN pricing : pricing[i].effective_date <= t}
    IN IF ok = {} THEN 0
       ELSE pricing[CHOOSE i \in ok :
                \A j \in ok : pricing[j].effective_date <= pricing[i].effective_date
            ].usd_per_1k_tokens

\* most recent non-deleted row with effective_date <= now; 0 when none
get_current_pricing(pricing, t) ==
    LET ok == {i \in DOMAIN pricing :
                  /\ ~pricing[i].is_deleted
                  /\ pricing[i].effective_date <= t}
    IN IF ok = {} THEN 0
       ELSE pricing[CHOOSE i \in ok :
                \A j \in ok : pricing[j].effective_date <= pricing[i].effective_date
            ].usd_per_1k_tokens

get_by_plan_name(plan_name) ==
    LET ok == {i \in DOMAIN subscription_tiers :
                  subscription_tiers[i].plan_name = plan_name}
    IN IF ok = {} THEN [found |-> FALSE, token_limit |-> 0]
       ELSE [found |-> TRUE,
             token_limit |-> subscription_tiers[CHOOSE i \in ok : TRUE].token_limit]

(***************************************************************************)
(* crud: user_subscriptions.                                               *)
(***************************************************************************)
NoRow ==
    [user |-> NULL, subscription_plan |-> NULL, tokens_consumed |-> 0,
     dollar_spent |-> 0, status |-> NULL, billing_period |-> <<0, 0>>,
     start_date |-> <<0, 0, 0>>, stripe_customer_id |-> NULL,
     stripe_subscription_id |-> NULL]

RowAt(rows, id) == IF id \in DOMAIN rows THEN rows[id] ELSE NoRow

\* scalar_one_or_none(): the row, none (id 0), or MultipleResultsFound
get_by_user_id_and_period(rows, user_id, billing_period) ==
    LET m == {i \in DOMAIN rows :
                 /\ rows[i].user = user_id
                 /\ rows[i].billing_period = billing_period}
    IN IF m = {} THEN [raised |-> FALSE, id |-> 0]
       ELSE IF Cardinality(m) = 1 THEN [raised |-> FALSE, id |-> CHOOSE i \in m : TRUE]
       ELSE [raised |-> TRUE, id |-> 0]

\* get_active_subscription without the status filter
get_active_subscription_any_status(rows, user_id) ==
    LET m == {i \in DOMAIN rows : rows[i].user = user_id}
    IN IF m = {} THEN 0 ELSE CHOOSE i \in m : \A j \in m : j <= i

\* order_by(created_at.desc()).limit(1) over ACTIVE / LIMIT_REACHED rows
get_active_subscription(rows, user_id) ==
    LET m == {i \in DOMAIN rows :
                 /\ rows[i].user = user_id
                 /\ rows[i].status \in {ACTIVE, LIMIT_REACHED}}
    IN IF m = {} THEN 0 ELSE CHOOSE i \in m : \A j \in m : j <= i

\* sql round(cast(x AS numeric), 3) of a non-negative amount in millionths
SqlRound3(micro) == (micro + 500) \div 1000

increment_usage(rows, subscription_id, tokens, cost) ==
    [rows EXCEPT ![subscription_id] =
        [@ EXCEPT !.tokens_consumed = @ + tokens,
                  !.dollar_spent = SqlRound3((@ * 1000) + (cost * 1000))]]

update_status(rows, subscription_id, status) ==
    [rows EXCEPT ![subscription_id] = [@ EXCEPT !.status = status]]

\* CRUDBase.create with UserSubscriptionCreate: counters and status take the
\* column defaults
create_subscription(rows, user_id, plan_name, billing_period, start_date, cust, sub) ==
    Append(rows,
        [user |-> user_id, subscription_plan |-> plan_name, tokens_consumed |-> 0,
         dollar_spent |-> 0, status |-> ACTIVE, billing_period |-> billing_period,
         start_date |-> start_date, stripe_customer_id |-> cust,
         stripe_subscription_id |-> sub])

\* python `a or b` on optional strings
Or(a, b) == IF a # NULL THEN a ELSE b

(***************************************************************************)
(* BillingService.                                                         *)
(***************************************************************************)
\* returns the table, the row id, created, and whether the lookup raised
get_or_create_user_subscription(rows, t, user_id, default_plan, cust, sub) ==
    LET billing_period == get_current_billing_period(t)
        existing == get_by_user_id_and_period(rows, user_id, billing_period)
        previous == get_active_subscription(rows, user_id)
        plan_name == IF previous # 0 THEN rows[previous].subscription_plan
                     ELSE default_plan
        c == IF previous # 0 THEN Or(cust, rows[previous].stripe_customer_id) ELSE cust
        s == IF previous # 0 THEN Or(sub, rows[previous].stripe_subscription_id) ELSE sub
    IN IF existing.raised
       THEN [rows |-> rows, id |-> 0, created |-> FALSE, raised |-> TRUE]
       ELSE IF existing.id # 0
       THEN [rows |-> rows, id |-> existing.id, created |-> FALSE, raised |-> FALSE]
       ELSE [rows |-> create_subscription(rows, user_id, plan_name, billing_period,
                         get_billing_period_start_date(billing_period), c, s),
             id |-> Len(rows) + 1, created |-> TRUE, raised |-> FALSE]

\* check_subscription_limit without its INACTIVE branch
check_result_no_inactive(subscription) ==
    LET tier == get_by_plan_name(subscription.subscription_plan)
    IN IF ~tier.found
       THEN [success |-> FALSE, allowed |-> FALSE, message |-> "tier not found",
             tokens_remaining |-> 0]
       ELSE IF subscription.status \in {EXPIRED, CANCELED, LIMIT_REACHED}
       THEN [success |-> TRUE, allowed |-> FALSE, message |-> "denied",
             tokens_remaining |-> 0]
       ELSE [success |-> TRUE, allowed |-> TRUE, message |-> "allowed",
             tokens_remaining |-> tier.token_limit - subscription.tokens_consumed]

\* the decision of check_subscription_limit for an account row
check_result(subscription) ==
    LET tier == get_by_plan_name(subscription.subscription_plan)
        tokens_remaining == tier.token_limit - subscription.tokens_consumed
    IN IF ~tier.found
       THEN [success |-> FALSE, allowed |-> FALSE, message |-> "tier not found",
             tokens_remaining |-> 0]
       ELSE IF subscription.status = EXPIRED
       THEN [success |-> TRUE, allowed |-> FALSE, message |-> "expired",
             tokens_remaining |-> 0]
       ELSE IF subscription.status = CANCELED
       THEN [success |-> TRUE, allowed |-> FALSE, message |-> "canceled",
             tokens_remaining |-> 0]
       ELSE IF subscription.status = INACTIVE
       THEN [success |-> TRUE, allowed |-> FALSE, message |-> "inactive",
             tokens_remaining |-> 0]
       ELSE IF subscription.status = LIMIT_REACHED
       THEN [success |-> TRUE, allowed |-> FALSE, message |-> "limit reached",
             tokens_remaining |-> 0]
       ELSE [success |-> TRUE, allowed |-> TRUE, message |-> "allowed",
             tokens_remaining |-> tokens_remaining]

IsTie(tokens_used, usd_per_1k) == (tokens_used * usd_per_1k) % 1000 = 500

\* the cost truncated to 3 decimals instead of rounded
dollar_cost_truncated(tokens_used, usd_per_1k, tie_up) ==
    (tokens_used * usd_per_1k) \div 1000

\* python round(x, 3) of tokens/1000 * rate: to the nearest thousandth; the
\* binary representation of the product decides an exact half (tie_up)
dollar_cost(tokens_used, usd_per_1k, tie_up) ==
    LET micro == tokens_used * usd_per_1k
        q == micro \div 1000
        r == micro % 1000
    IN IF r < 500 THEN q
       ELSE IF r > 500 THEN q + 1
       ELSE IF tie_up THEN q + 1 ELSE q

\* the flip of log_usage with > in place of >=
limit_reached_strict(updated_subscription) ==
    LET tier == get_by_plan_name(updated_subscription.subscription_plan)
    IN tier.found /\ updated_subscription.tokens_consumed > tier.token_limit

\* does log_usage flip the account to LIMIT_REACHED
limit_reached(updated_subscription) ==
    LET tier == get_by_plan_name(updated_subscription.subscription_plan)
    IN tier.found /\ updated_subscription.tokens_consumed >= tier.token_limit

\* a status_map that keeps a past_due subscription ACTIVE
status_map_past_due_active(status) ==
    CASE status \in {"active", "trialing", "past_due"} -> ACTIVE
      [] status = "canceled" -> CANCELED
      [] status = "incomplete_expired" -> EXPIRED
      [] OTHER -> INACTIVE

\* stripe status string to SubscriptionStatus (status_map.get(status, INACTIVE))
status_map(status) ==
    CASE status = "active" -> ACTIVE
      [] status = "canceled" -> CANCELED
      [] status = "incomplete" -> INACTIVE
      [] status = "incomplete_expired" -> EXPIRED
      [] status = "past_due" -> INACTIVE
      [] status = "trialing" -> ACTIVE
      [] status = "unpaid" -> INACTIVE
      [] OTHER -> INACTIVE


\* log_usage up to its return: the tables afterwards and the response.
\* An exception of the account lookup leaves the usage row already written.
log_usage(rows, usage, pricing, t, user_id, feature_type, tokens_used, request_id, status, tie_up) ==
    LET rate == get_current_pricing(pricing, t)
        cost == dollar_cost(tokens_used, rate, tie_up)
        usage1 == Append(usage,
                     [user |-> user_id, feature_used |-> feature_type,
                      tokens_used |-> tokens_used, dollar_cost |-> cost,
                      status |-> status, request_id |-> request_id])
        g == get_or_create_user_subscription(rows, t, user_id, "Free", NULL, NULL)
        rows2 == increment_usage(g.rows, g.id, tokens_used, cost)
        flip == limit_reached(rows2[g.id])
        rows3 == IF flip THEN update_status(rows2, g.id, LIMIT_REACHED) ELSE rows2
    IN IF rate = 0
       THEN [rows |-> rows, usage |-> usage, success |-> FALSE, raised |-> FALSE,
             message |-> "Token pricing not configured", limit_reached |-> FALSE,
             sub_id |-> 0, created |-> FALSE, cost |-> 0, rate |-> 0]
       ELSE IF g.raised
       THEN [rows |-> rows, usage |-> usage1, success |-> FALSE, raised |-> TRUE,
             message |-> "MultipleResultsFound", limit_reached |-> FALSE,
             sub_id |-> 0, created |-> FALSE, cost |-> cost, rate |-> rate]
       ELSE [rows |-> rows3, usage |-> usage1, success |-> TRUE, raised |-> FALSE,
             message |-> "Usage logged successfully", limit_reached |-> flip,
             sub_id |-> g.id, created |-> g.created, cost |-> cost, rate |-> rate]

\* update_subscription_from_stripe up to its return.  start is the date of
\* subscription_start_ts, NoDate when the timestamp is absent.
NoDate == <<0, 0, 0>>

update_subscription_from_stripe(rows, t, user_id, plan_name, cust, sub, status, start, reset_tokens) ==
    LET g == get_or_create_user_subscription(rows, t, user_id, plan_name, cust, sub)
        rows1 == [g.rows EXCEPT ![g.id] =
                     [@ EXCEPT !.subscription_plan = plan_name,
                               !.status = status_map(status),
                               !.stripe_customer_id = cust,
                               !.stripe_subscription_id = sub]]
        rows2 == IF start # NoDate
                 THEN [rows1 EXCEPT ![g.id] =
                         [@ EXCEPT !.billing_period = strftime_Ym(start),
                                   !.start_date = start]]
                 ELSE rows1
        rows3 == IF reset_tokens
                 THEN [rows2 EXCEPT ![g.id] =
                         [@ EXCEPT !.tokens_consumed = 0, !.dollar_spent = 0]]
                 ELSE rows2
    IN IF g.raised
       THEN [rows |-> rows, raised |-> TRUE, sub_id |-> 0, created |-> FALSE]
       ELSE [rows |-> rows3, raised |-> FALSE, sub_id |-> g.id, created |-> g.created]

(***************************************************************************)
(* crud: usage_log; billing middleware; the job timeout registry.          *)
(***************************************************************************)
\* an existence check that never finds a row
exists_by_request_id_never(usage, user_id, feature_type, request_id) ==
    FALSE

\* is there a usage_log row of this user, feature and (non-empty) request id
exists_by_request_id(usage, user_id, feature_type, request_id) ==
    /\ request_id # NULL
    /\ \E i \in DOMAIN usage :
          /\ usage[i].user = user_id
          /\ usage[i].feature_used = feature_type
          /\ usage[i].request_id = request_id

\* check_billing_limit: the admission check of a handler; allowed = FALSE is
\* the 402 response, raised the exception of the account lookup
check_billing_limit(rows, t, user_id) ==
    LET g == get_or_create_user_subscription(rows, t, user_id, "Free", NULL, NULL)
        r == check_result(RowAt(g.rows, g.id))
    IN [rows |-> g.rows, raised |-> g.raised, allowed |-> ~g.raised /\ r.allowed,
        created |-> g.created, sub_id |-> g.id]

\* a register_job that replaces the entry of a key already present
register_job_overwrite(entries, category, job_id, timeout_seconds, now, project_id, file_id) ==
    [k \in (DOMAIN entries) \cup {<<category, job_id>>} |->
        IF k = <<category, job_id>>
        THEN [timeout_seconds |-> timeout_seconds, started_monotonic |-> now,
              project_id |-> project_id, file_id |-> file_id]
        ELSE entries[k]]

\* first registration wins
register_job(entries, category, job_id, timeout_seconds, now, project_id, file_id) ==
    LET key == <<category, job_id>>
    IN IF key \in DOMAIN entries THEN entries
       ELSE (key :> [timeout_seconds |-> timeout_seconds,
                     started_monotonic |-> now,
                     project_id |-> project_id, file_id |-> file_id]) @@ entries

\* is_timed_out with > in place of >=
is_timed_out_strict(entries, category, job_id, now) ==
    LET key == <<category, job_id>>
    IN /\ key \in DOMAIN entries
       /\ now - entries[key].started_monotonic > entries[key].timeout_seconds

is_timed_out(entries, category, job_id, now) ==
    LET key == <<category, job_id>>
    IN /\ key \in DOMAIN entries
       /\ now - entries[key].started_monotonic >= entries[key].timeout_seconds

remove_job(entries, category, job_id) ==
    [k \in (DOMAIN entries) \ {<<category, job_id>>} |-> entries[k]]

(***************************************************************************)
(* The response record of the most recent call.                            *)
(***************************************************************************)
NoEvent ==
    [plan |-> NULL, refs |-> <<NULL, NULL>>, status |-> NULL, start |-> NoDate,
     reset |-> FALSE]

NoResp ==
    [op |-> "none", user |-> NULL, raised |-> FALSE, success |-> FALSE,
     allowed |-> FALSE, message |-> NULL, tokens_remaining |-> 0,
     limit_reached |-> FALSE, created |-> FALSE, sub_id |-> 0, tokens |-> 0,
     event |-> NoEvent, key |-> <<NULL, NULL>>, timed_out |-> FALSE,
     arg |-> <<0, NULL, NULL>>]

\* a job id the ingestion agent has not issued
NoJob == [status |-> "none", tokens |-> 0, agent |-> NULL]

\* what the agent of a category answers about job id j: jobs of another agent
\* are unknown to it
job_of(jobs, category, j) ==
    IF jobs[j].agent = category THEN jobs[j] ELSE NoJob

\* a slot with no call in flight
IdleCall ==
    [op |-> "none", pc |-> "idle", user |-> NULL, tokens_used |-> 0, rate |-> 0,
     dollar_cost |-> 0, billing_period |-> <<0, 0>>, sub_id |-> 0,
     plan_name |-> NULL, refs |-> <<NULL, NULL>>, tokens_consumed |-> 0,
     outcome |-> "none", feature_used |-> NULL, request_id |-> NULL,
     status |-> NULL]

\* the status of the user's account of the month, "none" without one
AccountStatus(rows, t, user_id) ==
    LET m == {i \in DOMAIN rows :
                 /\ rows[i].user = user_id
                 /\ rows[i].billing_period = get_current_billing_period(t)}
    IN IF m = {} THEN "none" ELSE rows[CHOOSE i \in m : \A j \in m : j <= i].status

\* history: unrounded charges (millionths) and their number, per account row
AuditAfter(aud, sub_id, created, micro, charged) ==
    LET a == IF created THEN Append(aud, [exact |-> 0, n |-> 0]) ELSE aud
    IN IF charged
       THEN [a EXCEPT ![sub_id] = [exact |-> @.exact + micro, n |-> @.n + 1]]
       ELSE a

(***************************************************************************)
(* Calls of the billing engine, each run to its return.                    *)
(***************************************************************************)
Init ==
    /\ clock = 0
    /\ token_pricing \in PricingTables
    /\ user_subscriptions = << >>
    /\ usage_log = << >>
    /\ resp = NoResp
    /\ audit = << >>
    /\ hit = [u \in Users |-> "no"]
    /\ agent_jobs = [j \in JobIds |-> NoJob]
    /\ job_timeout_registry = [k \in {} |-> NULL]
    /\ monotonic = 0
    /\ dispatched = {}
    /\ calls = [c \in Calls |-> IdleCall]
    /\ active_connections = {}
    /\ user_stream_tasks = [u \in Users |-> NoTask]
    /\ streams = << >>
    /\ handler = [u \in Users |-> IdleHandler]
    /\ ws_sent = {}
    /\ time_time = 0
    /\ queue = << >>
    /\ stats = [messages_queued |-> 0, messages_saved |-> 0, messages_failed |-> 0]
    /\ is_running = FALSE
    /\ worker = << >>
    /\ messages = << >>
    /\ shutdown = NoShutdown

\* GET /billing/subscription
GetOrCreateUserSubscription(u) ==
    LET g == get_or_create_user_subscription(user_subscriptions, clock, u, "Free", NULL, NULL)
    IN /\ Len(g.rows) <= MaxRows
       /\ user_subscriptions' = g.rows
       /\ audit' = AuditAfter(audit, g.id, g.created, 0, FALSE)
       /\ resp' = [NoResp EXCEPT !.op = "get_or_create", !.user = u,
                       !.raised = g.raised, !.success = ~g.raised,
                       !.created = g.created, !.sub_id = g.id]
       /\ UNCHANGED <<clock, token_pricing, usage_log, hit, job_vars, calls,
                   chat_vars, queue_vars>>

\* POST /billing/check-subscription
CheckSubscriptionLimit(u) ==
    LET g == get_or_create_user_subscription(user_subscriptions, clock, u, "Free", NULL, NULL)
        r == check_result(RowAt(g.rows, g.id))
    IN /\ Len(g.rows) <= MaxRows
       /\ user_subscriptions' = g.rows
       /\ audit' = AuditAfter(audit, g.id, g.created, 0, FALSE)
       /\ resp' = IF g.raised
                  THEN [NoResp EXCEPT !.op = "check_limit", !.user = u, !.raised = TRUE]
                  ELSE [NoResp EXCEPT !.op = "check_limit", !.user = u,
                            !.success = r.success, !.allowed = r.allowed,
                            !.message = r.message,
                            !.tokens_remaining = r.tokens_remaining,
                            !.created = g.created, !.sub_id = g.id]
       /\ UNCHANGED <<clock, token_pricing, usage_log, hit, job_vars, calls,
                   chat_vars, queue_vars>>

\* the bookkeeping every caller of log_usage shares
LogUsageEffectsOfPoll(r, u, n, op, key, timed_out) ==
    /\ user_subscriptions' = r.rows
    /\ usage_log' = r.usage
    /\ audit' = AuditAfter(audit, r.sub_id, r.created, n * r.rate, r.success)
    /\ hit' = IF r.limit_reached THEN [hit EXCEPT ![u] = "yes"] ELSE hit
    /\ resp' = [NoResp EXCEPT !.op = op, !.user = u, !.tokens = n,
                    !.raised = r.raised, !.success = r.success,
                    !.message = r.message, !.limit_reached = r.limit_reached,
                    !.created = r.created, !.sub_id = r.sub_id,
                    !.key = key, !.timed_out = timed_out]

LogUsageEffects(r, u, n, op) ==
    LogUsageEffectsOfPoll(r, u, n, op, <<NULL, NULL>>, FALSE)

\* POST /billing/log-usage
LogUsage(u, f, n, rid, tie_up) ==
    LET r == log_usage(user_subscriptions, usage_log, token_pricing, clock,
                       u, f, n, rid, NULL, tie_up)
    IN /\ Len(r.usage) <= MaxCharges
       /\ Len(r.rows) <= MaxRows
       /\ tie_up => IsTie(n, get_current_pricing(token_pricing, clock))
       /\ LogUsageEffects(r, u, n, "log_usage")
       /\ UNCHANGED <<clock, token_pricing, job_vars, calls,
                   chat_vars, queue_vars>>

\* a webhook call: provider status, plan and references, the start of the
\* paid period (this month or the month before) and the reset flag
StripeEvent(t, plan, cust, sub, status, start_month, start_day, reset) ==
    LET d == utcnow(t - start_month)
    IN [plan |-> plan, refs |-> <<cust, sub>>, status |-> status,
        start |-> IF start_day = 0 THEN NoDate ELSE <<d[1], d[2], start_day>>,
        reset |-> reset]

\* stripe webhook -> update_subscription_from_stripe
UpdateSubscriptionFromStripe(u, e) ==
    LET r == update_subscription_from_stripe(user_subscriptions, clock, u, e.plan,
                 e.refs[1], e.refs[2], e.status, e.start, e.reset)
        a == AuditAfter(audit, r.sub_id, r.created, 0, FALSE)
    IN /\ Len(r.rows) <= MaxRows
       /\ user_subscriptions' = r.rows
       /\ audit' = IF e.reset /\ ~r.raised
                   THEN [a EXCEPT ![r.sub_id] = [exact |-> 0, n |-> 0]]
                   ELSE a
       /\ hit' = [hit EXCEPT ![u] = IF @ = "yes" THEN "reconciled" ELSE @]
       /\ resp' = [NoResp EXCEPT !.op = "reconcile", !.user = u, !.raised = r.raised,
                       !.success = ~r.raised, !.created = r.created,
                       !.sub_id = r.sub_id, !.event = e]
       /\ UNCHANGED <<clock, token_pricing, usage_log, job_vars, calls,
                   chat_vars, queue_vars>>

\* the calendar moves to the next month
AdvanceMonth ==
    /\ clock < MaxMonths - 1
    /\ clock' = clock + 1
    /\ hit' = [u \in Users |-> "no"]
    /\ resp' = [NoResp EXCEPT !.op = "tick"]
    /\ UNCHANGED <<token_pricing, user_subscriptions, usage_log, audit, job_vars, calls,
                   chat_vars, queue_vars>>


(***************************************************************************)
(* Handlers of the ingestion and precedent routers.                        *)
(***************************************************************************)
\* POST /ingestion/parse: admission check, then the post to the ingestion
\* agent, which answers status_code and (on 200) the fresh job id j
ParseDocument(u, j, project_id, status_code) ==
    LET c == check_billing_limit(user_subscriptions, clock, u)
        sent == ~c.raised /\ c.allowed
        ok == sent /\ status_code = 200
    IN /\ Len(c.rows) <= MaxRows
       /\ ok => agent_jobs[j].status = "none"
       /\ user_subscriptions' = c.rows
       /\ audit' = AuditAfter(audit, c.sub_id, c.created, 0, FALSE)
       /\ dispatched' =
            IF sent
            THEN dispatched \cup
                   {[user |-> u, feature |-> "ingestion", checked |-> TRUE,
                     status |-> AccountStatus(c.rows, clock, u)]}
            ELSE dispatched
       /\ agent_jobs' = IF ok THEN [agent_jobs EXCEPT ![j] =
                                [status |-> "running", tokens |-> 0, agent |-> "ingestion"]]
                        ELSE agent_jobs
       /\ job_timeout_registry' =
            IF ok
            THEN register_job(job_timeout_registry, "ingestion", j,
                              ingestion_api_timeout, monotonic, project_id, NULL)
            ELSE job_timeout_registry
       /\ resp' = [NoResp EXCEPT !.op = "parse_document", !.user = u,
                       !.raised = c.raised, !.allowed = sent, !.success = ok,
                       !.created = c.created, !.sub_id = c.sub_id]
       /\ UNCHANGED <<clock, token_pricing, usage_log, hit, monotonic, calls,
                   chat_vars, queue_vars>>

\* the ingestion agent finishes job j: completed with a token total, or failed
JobCompletes(j, status, n) ==
    /\ agent_jobs[j].status = "running"
    /\ agent_jobs' = [agent_jobs EXCEPT ![j] = [@ EXCEPT !.status = status, !.tokens = n]]
    /\ resp' = [NoResp EXCEPT !.op = "agent"]
    /\ UNCHANGED <<clock, token_pricing, user_subscriptions, usage_log, audit, hit,
                   job_timeout_registry, monotonic, dispatched, calls,
                   chat_vars, queue_vars>>

\* GET /ingestion/job/{job_id}: the timeout branch logs a TIMEOUT entry once
\* (guarded by exists_by_request_id) and answers 504; otherwise the agent is
\* asked, a completed job is logged and a finished job leaves the registry.
\* Exceptions of log_billing_usage are swallowed by the handler.
GetJobStatus(u, j, tie_up) ==
    LET timed_out == is_timed_out(job_timeout_registry, "ingestion", j, monotonic)
        exists == exists_by_request_id(usage_log, u, "ingestion", j)
        job == job_of(agent_jobs, "ingestion", j)
        completed == ~timed_out /\ job.status = "completed"
        finished == ~timed_out /\ job.status \in {"completed", "failed", "error"}
        logs == (timed_out /\ ~exists) \/ completed
        n == IF timed_out THEN 0 ELSE job.tokens
        r == log_usage(user_subscriptions, usage_log, token_pricing, clock, u,
                       "ingestion", n, j,
                       IF timed_out THEN "TIMEOUT" ELSE "SUCCESS", tie_up)
    IN /\ logs => (Len(r.usage) <= MaxCharges /\ Len(r.rows) <= MaxRows)
       /\ tie_up => (logs /\ IsTie(n, get_current_pricing(token_pricing, clock)))
       /\ IF logs
          THEN LogUsageEffectsOfPoll(r, u, n, "get_job_status",
                                     <<"ingestion", j>>, timed_out)
          ELSE /\ resp' = [NoResp EXCEPT !.op = "get_job_status", !.user = u,
                               !.success = (~timed_out /\ job.status # "none"),
                               !.key = <<"ingestion", j>>, !.timed_out = timed_out]
               /\ UNCHANGED <<user_subscriptions, usage_log, audit, hit>>
       /\ job_timeout_registry' =
            IF finished THEN remove_job(job_timeout_registry, "ingestion", j)
            ELSE job_timeout_registry
       /\ UNCHANGED <<clock, token_pricing, agent_jobs, monotonic, dispatched, calls,
                   chat_vars, queue_vars>>

\* POST /orchestrator/process: admission check, then the post to the
\* orchestrator, which answers an error or the fresh job id j
ProcessJson(u, j, project_id, status_code) ==
    LET c == check_billing_limit(user_subscriptions, clock, u)
        sent == ~c.raised /\ c.allowed
        ok == sent /\ status_code = 200
    IN /\ Len(c.rows) <= MaxRows
       /\ ok => agent_jobs[j].status = "none"
       /\ user_subscriptions' = c.rows
       /\ audit' = AuditAfter(audit, c.sub_id, c.created, 0, FALSE)
       /\ dispatched' =
            IF sent
            THEN dispatched \cup
                   {[user |-> u, feature |-> "orchestrator", checked |-> TRUE,
                     status |-> AccountStatus(c.rows, clock, u)]}
            ELSE dispatched
       /\ agent_jobs' = IF ok THEN [agent_jobs EXCEPT ![j] =
                                [status |-> "running", tokens |-> 0, agent |-> "orchestrator"]]
                        ELSE agent_jobs
       /\ job_timeout_registry' =
            IF ok
            THEN register_job(job_timeout_registry, "orchestrator", j,
                              orchestrator_timeout, monotonic, project_id, NULL)
            ELSE job_timeout_registry
       /\ resp' = [NoResp EXCEPT !.op = "process_json", !.user = u,
                       !.raised = c.raised, !.allowed = sent, !.success = ok,
                       !.created = c.created, !.sub_id = c.sub_id]
       /\ UNCHANGED <<clock, token_pricing, usage_log, hit, monotonic, calls,
                   chat_vars, queue_vars>>

\* POST /precedents/embed_precedent: the post to the precedent service (no
\* admission check), which answers status_code and (on 200) the job id j
EmbedPrecedent(u, j, status_code) ==
    LET ok == status_code = 200
    IN /\ ok => agent_jobs[j].status = "none"
       /\ dispatched' = dispatched \cup
            {[user |-> u, feature |-> "precedent_embed", checked |-> FALSE,
              status |-> AccountStatus(user_subscriptions, clock, u)]}
       /\ agent_jobs' = IF ok THEN [agent_jobs EXCEPT ![j] =
                                [status |-> "running", tokens |-> 0, agent |-> "precedent"]]
                        ELSE agent_jobs
       /\ job_timeout_registry' =
            IF ok
            THEN register_job(job_timeout_registry, "precedent", j,
                              precedent_retrieval_api_timeout, monotonic, NULL, NULL)
            ELSE job_timeout_registry
       /\ resp' = [NoResp EXCEPT !.op = "embed_precedent", !.user = u, !.success = ok]
       /\ UNCHANGED <<clock, token_pricing, user_subscriptions, usage_log, audit, hit,
                      monotonic, calls,
                   chat_vars, queue_vars>>

\* GET /orchestrator/job/{job_id}: the timeout branch logs a TIMEOUT entry
\* once (guarded by exists_by_request_id) and answers 504; otherwise the
\* orchestrator's answer is passed through.
GetJob(u, j) ==
    LET timed_out == is_timed_out(job_timeout_registry, "orchestrator", j, monotonic)
        exists == exists_by_request_id(usage_log, u, "orchestrator", j)
        logs == timed_out /\ ~exists
        r == log_usage(user_subscriptions, usage_log, token_pricing, clock, u,
                       "orchestrator", 0, j, "TIMEOUT", FALSE)
    IN /\ logs => (Len(r.usage) <= MaxCharges /\ Len(r.rows) <= MaxRows)
       /\ IF logs
          THEN LogUsageEffectsOfPoll(r, u, 0, "get_job", <<"orchestrator", j>>, timed_out)
          ELSE /\ resp' = [NoResp EXCEPT !.op = "get_job", !.user = u,
                               !.success = (~timed_out /\ job_of(agent_jobs, "orchestrator", j).status # "none"),
                               !.key = <<"orchestrator", j>>, !.timed_out = timed_out]
               /\ UNCHANGED <<user_subscriptions, usage_log, audit, hit>>
       /\ UNCHANGED <<clock, token_pricing, job_vars, calls,
                   chat_vars, queue_vars>>

\* GET /orchestrator/job/{job_id}/apply: 504 for a timed out job; otherwise
\* the job's token total so far is logged unless an entry of the job id
\* exists, and the job then leaves the registry unless the logging raised.
GetJobApply(u, j) ==
    LET timed_out == is_timed_out(job_timeout_registry, "orchestrator", j, monotonic)
        exists == exists_by_request_id(usage_log, u, "orchestrator", j)
        job == job_of(agent_jobs, "orchestrator", j)
        logs == ~timed_out /\ job.status # "none" /\ ~exists
        r == log_usage(user_subscriptions, usage_log, token_pricing, clock, u,
                       "orchestrator", job.tokens, j, "SUCCESS", FALSE)
    IN /\ logs => (Len(r.usage) <= MaxCharges /\ Len(r.rows) <= MaxRows)
       /\ IF logs
          THEN LogUsageEffectsOfPoll(r, u, job.tokens, "get_job_apply",
                                     <<"orchestrator", j>>, timed_out)
          ELSE /\ resp' = [NoResp EXCEPT !.op = "get_job_apply", !.user = u,
                               !.success = (~timed_out /\ job.status # "none"),
                               !.key = <<"orchestrator", j>>, !.timed_out = timed_out]
               /\ UNCHANGED <<user_subscriptions, usage_log, audit, hit>>
       /\ job_timeout_registry' =
            IF logs /\ ~r.raised
            THEN remove_job(job_timeout_registry, "orchestrator", j)
            ELSE job_timeout_registry
       /\ UNCHANGED <<clock, token_pricing, agent_jobs, monotonic, dispatched, calls,
                   chat_vars, queue_vars>>

\* GET /precedents/embed_job/{job_id}: the timeout branch as above; otherwise
\* a completed job is logged unless an entry of the job id exists, and a
\* finished job leaves the registry.
GetEmbedJobStatus(u, j) ==
    LET timed_out == is_timed_out(job_timeout_registry, "precedent", j, monotonic)
        exists == exists_by_request_id(usage_log, u, "precedent_embed", j)
        job == job_of(agent_jobs, "precedent", j)
        completed == ~timed_out /\ job.status = "completed"
        finished == ~timed_out /\ job.status \in {"completed", "failed", "error"}
        logs == (timed_out \/ completed) /\ ~exists
        n == IF timed_out THEN 0 ELSE job.tokens
        r == log_usage(user_subscriptions, usage_log, token_pricing, clock, u,
                       "precedent_embed", n, j,
                       IF timed_out THEN "TIMEOUT" ELSE "SUCCESS", FALSE)
    IN /\ logs => (Len(r.usage) <= MaxCharges /\ Len(r.rows) <= MaxRows)
       /\ IF logs
          THEN LogUsageEffectsOfPoll(r, u, n, "get_embed_job_status",
                                     <<"precedent", j>>, timed_out)
          ELSE /\ resp' = [NoResp EXCEPT !.op = "get_embed_job_status", !.user = u,
                               !.success = (~timed_out /\ job.status # "none"),
                               !.key = <<"precedent", j>>, !.timed_out = timed_out]
               /\ UNCHANGED <<user_subscriptions, usage_log, audit, hit>>
       /\ job_timeout_registry' =
            IF finished THEN remove_job(job_timeout_registry, "precedent", j)
            ELSE job_timeout_registry
       /\ UNCHANGED <<clock, token_pricing, agent_jobs, monotonic, dispatched, calls,
                   chat_vars, queue_vars>>

\* POST /precedents/search_clauses: the post to the precedent service, then
\* the usage entry of a 200 answer (n tokens) or of a timeout (0 tokens)
SearchClauses(u, outcome, n, tie_up) ==
    LET logs == outcome \in {"ok", "timeout"}
        tokens == IF outcome = "ok" THEN n ELSE 0
        r == log_usage(user_subscriptions, usage_log, token_pricing, clock, u,
                       "precedent_search", tokens, NULL,
                       IF outcome = "ok" THEN "SUCCESS" ELSE "TIMEOUT", tie_up)
    IN /\ logs => (Len(r.usage) <= MaxCharges /\ Len(r.rows) <= MaxRows)
       /\ tie_up => (logs /\ IsTie(tokens, get_current_pricing(token_pricing, clock)))
       /\ dispatched' = dispatched \cup
            {[user |-> u, feature |-> "precedent_search", checked |-> FALSE,
              status |-> AccountStatus(user_subscriptions, clock, u)]}
       /\ IF logs
          THEN LogUsageEffects(r, u, tokens, "search_clauses")
          ELSE /\ resp' = [NoResp EXCEPT !.op = "search_clauses", !.user = u]
               /\ UNCHANGED <<user_subscriptions, usage_log, audit, hit>>
       /\ UNCHANGED <<clock, token_pricing, agent_jobs, job_timeout_registry,
                      monotonic, calls,
                   chat_vars, queue_vars>>

\* job_timeout_registry.register_job(category, job_id, timeout_seconds, ...)
RegisterJob(category, job_id, timeout_seconds, project_id, file_id) ==
    /\ job_timeout_registry' =
          register_job(job_timeout_registry, category, job_id, timeout_seconds,
                       monotonic, project_id, file_id)
    /\ resp' = [NoResp EXCEPT !.op = "register", !.key = <<category, job_id>>,
                    !.arg = <<timeout_seconds, project_id, file_id>>]
    /\ UNCHANGED <<clock, token_pricing, user_subscriptions, usage_log, audit, hit,
                   agent_jobs, monotonic, dispatched, calls,
                   chat_vars, queue_vars>>

\* job_timeout_registry.is_timed_out(category, job_id)
IsTimedOut(category, job_id) ==
    /\ resp' = [NoResp EXCEPT !.op = "is_timed_out", !.key = <<category, job_id>>,
                    !.timed_out = is_timed_out(job_timeout_registry, category,
                                               job_id, monotonic)]
    /\ UNCHANGED <<clock, token_pricing, user_subscriptions, usage_log, audit, hit,
                   job_vars, calls,
                   chat_vars, queue_vars>>

\* job_timeout_registry.remove_job(category, job_id)
RemoveJob(category, job_id) ==
    /\ job_timeout_registry' = remove_job(job_timeout_registry, category, job_id)
    /\ resp' = [NoResp EXCEPT !.op = "remove", !.key = <<category, job_id>>,
                    !.success = (<<category, job_id>> \in DOMAIN job_timeout_registry)]
    /\ UNCHANGED <<clock, token_pricing, user_subscriptions, usage_log, audit, hit,
                   agent_jobs, monotonic, dispatched, calls,
                   chat_vars, queue_vars>>

(***************************************************************************)
(* The message queue's producer side, the stream tasks, and the handlers   *)
(* of the WebSocket manager.  A stream task is a record; its pc is the     *)
(* await it is suspended at: created (not yet run), requesting (the typing *)
(* event and the completion request), streaming (the send of a chunk),     *)
(* completing (the send of the completion signal), erroring (the send of   *)
(* the error event), done.  A response's text is counted in chunks; the    *)
(* content of an assistant message is the stream it comes from and the     *)
(* number of chunks it holds, that of a user message its prompt.           *)
(***************************************************************************)
\* datetime.utcfromtimestamp / datetime.utcnow: a float reading of the
\* clock rounded half to even to whole microseconds
utcfromtimestamp(ts) ==
    LET q == ts \div 2
    IN IF ts % 2 = 0 \/ q % 2 = 0 THEN q ELSE q + 1

\* MessageQueue.add_message: created_at defaults to the time of the call
add_message(q, st, conversation_id, role, content, created_at, now) ==
    [queue |-> Append(q, [conversation_id |-> conversation_id, role |-> role,
                          content |-> content,
                          created_at |-> IF created_at = NoTime
                                         THEN utcfromtimestamp(now)
                                         ELSE created_at,
                          retry_count |-> 0, attempts |-> 0]),
     stats |-> [st EXCEPT !.messages_queued = @ + 1]]

\* asyncio.Task.done()
done(tasks, task) == tasks[task].pc = "done"

\* a cancel_current_stream that does not wait for the cancelled task
cancel_current_stream_no_wait(tasks, ust, user_id) ==
    LET task == ust[user_id]
    IN IF task # NoTask /\ ~done(tasks, task)
       THEN [streams |-> [tasks EXCEPT ![task].cancel = TRUE], awaits |-> FALSE]
       ELSE [streams |-> tasks, awaits |-> FALSE]

\* cancel_current_stream up to its await: the running task of the user, if
\* any, is cancelled and the caller waits for it
cancel_current_stream(tasks, ust, user_id) ==
    LET task == ust[user_id]
    IN IF task # NoTask /\ ~done(tasks, task)
       THEN [streams |-> [tasks EXCEPT ![task].cancel = TRUE], awaits |-> TRUE]
       ELSE [streams |-> tasks, awaits |-> FALSE]

\* _start_stream_openai_response: the previous task is cancelled and not
\* waited for, and a new task takes its place
start_stream_openai_response(tasks, ust, user_id, conversation_id, format, prompt) ==
    LET prev == ust[user_id]
        tasks1 == IF prev # NoTask /\ ~done(tasks, prev)
                  THEN [tasks EXCEPT ![prev].cancel = TRUE]
                  ELSE tasks
        task == [user |-> user_id, conversation_id |-> conversation_id,
                 pc |-> "created", cancel |-> FALSE, full_response |-> 0,
                 generation_started_at |-> NoTime, outcome |-> "none",
                 format |-> format, prompt |-> prompt]
    IN [streams |-> Append(tasks1, task),
        user_stream_tasks |-> [ust EXCEPT ![user_id] = Len(tasks1) + 1]]

\* the created_at a stream gives its assistant message, and one that takes
\* the time of the call
created_at_now(generation_started_at, now) ==
    utcfromtimestamp(now)

created_at_of_stream(generation_started_at, now) ==
    utcfromtimestamp(generation_started_at)

\* the finally clause of _stream_openai_response, run by task while it is
\* not yet done: the user's reference is dropped if its task is done
stream_finally(tasks, ust, task) ==
    LET user_id == tasks[task].user
        current == ust[user_id]
    IN IF current # NoTask /\ current # task /\ done(tasks, current)
       THEN [ust EXCEPT ![user_id] = NoTask]
       ELSE ust

\* a task whose cancellation has been requested and not yet delivered; the
\* event loop wakes it before anything that becomes ready later
CancelPending ==
    \E t \in DOMAIN streams : streams[t].cancel /\ ~done(streams, t)

\* a task that is ready to run: cancelled, or created and not yet run.  What
\* input and output make ready (a message of the client, a read of the
\* database, an answer to a stream's await) runs after it.
ReadyTask ==
    \E t \in DOMAIN streams :
        ~done(streams, t) /\ (streams[t].cancel \/ streams[t].pc = "created")

\* websocket accept: WebSocketManager.connect
Connect(u) ==
    /\ ~ReadyTask
    /\ u \notin active_connections
    /\ handler[u].pc = "idle"
    /\ active_connections' = active_connections \cup {u}
    /\ UNCHANGED <<user_stream_tasks, streams, handler, ws_sent, time_time>>
    /\ UNCHANGED <<ledger_vars, job_vars, queue_vars>>

\* WebSocketManager.disconnect: the connection and the task reference are
\* dropped and a running task is cancelled, not waited for
Disconnect(u) ==
    LET task == user_stream_tasks[u]
    IN /\ ~ReadyTask
       /\ u \in active_connections
       /\ handler[u].pc = "idle"
       /\ active_connections' = active_connections \ {u}
       /\ user_stream_tasks' = [user_stream_tasks EXCEPT ![u] = NoTask]
       /\ streams' = IF task # NoTask /\ ~done(streams, task)
                     THEN [streams EXCEPT ![task].cancel = TRUE]
                     ELSE streams
       /\ UNCHANGED <<handler, ws_sent, time_time>>
       /\ UNCHANGED <<ledger_vars, job_vars, queue_vars>>

\* the common tail of the two chat handlers: the user message is queued
\* when the prompt names a conversation; the history of the conversation is
\* then read (an await), and without a conversation the stream starts at once
QueueAndStart(u, ust, tasks, conversation_id, format, prompt) ==
    LET a == add_message(queue, stats, conversation_id, "user", <<"prompt", prompt>>,
                         NoTime, time_time)
        g == start_stream_openai_response(tasks, ust, u, conversation_id, format, prompt)
    IN IF conversation_id # NULL
       THEN /\ queue' = a.queue
            /\ stats' = a.stats
            /\ streams' = tasks
            /\ user_stream_tasks' = ust
            /\ handler' = [handler EXCEPT ![u] =
                  [pc |-> "history", format |-> format,
                   conversation_id |-> conversation_id, prompt |-> prompt]]
       ELSE /\ UNCHANGED <<queue, stats>>
            /\ streams' = g.streams
            /\ user_stream_tasks' = g.user_stream_tasks
            /\ handler' = [handler EXCEPT ![u] = IdleHandler]

\* handle_chat_event, from the arrival of an event-format prompt to its
\* first await
HandleChatEvent(u, conversation_id) ==
    LET c == cancel_current_stream(streams, user_stream_tasks, u)
        prompt == Len(streams) + 1
    IN /\ ~ReadyTask
       /\ u \in active_connections
       /\ handler[u].pc = "idle"
       /\ Len(streams) + 1 \in Prompts
       /\ IF c.awaits
          THEN /\ streams' = c.streams
               /\ handler' = [handler EXCEPT ![u] =
                     [pc |-> "await_task", format |-> "event",
                      conversation_id |-> conversation_id, prompt |-> prompt]]
               /\ UNCHANGED <<user_stream_tasks, queue, stats>>
          ELSE QueueAndStart(u, user_stream_tasks, c.streams, conversation_id,
                             "event", prompt)
       /\ UNCHANGED <<active_connections, ws_sent, time_time>>
       /\ UNCHANGED <<ledger_vars, job_vars, is_running, worker, messages, shutdown>>

\* handle_chat_event resumes when the cancelled task has ended: the
\* reference is dropped, then the tail of the handler runs
ResumeChatEvent(u) ==
    /\ handler[u].pc = "await_task"
    /\ done(streams, user_stream_tasks[u])
    /\ QueueAndStart(u, [user_stream_tasks EXCEPT ![u] = NoTask], streams,
                     handler[u].conversation_id, "event", handler[u].prompt)
    /\ UNCHANGED <<active_connections, ws_sent, time_time>>
    /\ UNCHANGED <<ledger_vars, job_vars, is_running, worker, messages, shutdown>>

\* handle_legacy_message, from the arrival of a legacy-format prompt to its
\* first await: no cancel_current_stream
HandleLegacyMessage(u, conversation_id) ==
    /\ ~ReadyTask
    /\ u \in active_connections
    /\ handler[u].pc = "idle"
    /\ Len(streams) + 1 \in Prompts
    /\ QueueAndStart(u, user_stream_tasks, streams, conversation_id, "legacy",
                     Len(streams) + 1)
    /\ UNCHANGED <<active_connections, ws_sent, time_time>>
    /\ UNCHANGED <<ledger_vars, job_vars, is_running, worker, messages, shutdown>>

\* either handler after the history was read: _start_stream_openai_response
HistoryLoaded(u) ==
    LET h == handler[u]
        g == start_stream_openai_response(streams, user_stream_tasks, u,
                                          h.conversation_id, h.format, h.prompt)
    IN /\ ~ReadyTask
       /\ h.pc = "history"
       /\ streams' = g.streams
       /\ user_stream_tasks' = g.user_stream_tasks
       /\ handler' = [handler EXCEPT ![u] = IdleHandler]
       /\ UNCHANGED <<active_connections, ws_sent, time_time>>
       /\ UNCHANGED <<ledger_vars, job_vars, queue_vars>>

\* a task ends: its finally clause, then done
StreamEnds(t, outcome, enqueue) ==
    LET st == streams[t]
        a == add_message(queue, stats, st.conversation_id, "assistant",
                         <<t, st.full_response>>,
                         created_at_of_stream(st.generation_started_at, time_time),
                         time_time)
    IN /\ streams' = [streams EXCEPT ![t].pc = "done", ![t].outcome = outcome]
       /\ user_stream_tasks' =
            IF st.pc = "created" THEN user_stream_tasks
            ELSE stream_finally(streams, user_stream_tasks, t)
       /\ IF enqueue /\ st.conversation_id # NULL /\ st.full_response > 0
          THEN queue' = a.queue /\ stats' = a.stats
          ELSE UNCHANGED <<queue, stats>>

\* the except Exception branch: the error event is sent if the user is
\* connected (an await), and nothing is queued
StreamFails(t) ==
    LET st == streams[t]
    IN IF st.user \in active_connections
       THEN /\ ws_sent' = ws_sent \cup {[type |-> "error", user |-> st.user, stream |-> t]}
            /\ streams' = [streams EXCEPT ![t].pc = "erroring"]
            /\ UNCHANGED <<user_stream_tasks, queue, stats>>
       ELSE /\ StreamEnds(t, "failed", FALSE)
            /\ UNCHANGED ws_sent

\* one step of task t of _stream_openai_response, from the await it is
\* suspended at to the next; what it awaited answers ok, end (the response
\* has no more chunks) or error, and a requested cancellation is delivered
\* in place of the answer
StreamStep(t, answer) ==
    LET st == streams[t]
        connected == st.user \in active_connections
        event(type) == [type |-> type, user |-> st.user, stream |-> t]
    IN /\ ~done(streams, t)
       /\ st.cancel \/ (~CancelPending /\ (st.pc = "created" \/ ~ReadyTask))
       /\ \A u \in Users : handler[u].pc = "await_task" => st.cancel
       /\ CASE st.cancel /\ st.pc \in {"created", "requesting", "streaming", "completing"} ->
                 /\ answer = "ok"
                 /\ StreamEnds(t, "cancelled", TRUE)
                 /\ UNCHANGED ws_sent
            [] st.cancel /\ st.pc = "erroring" ->
                 /\ answer = "ok"
                 /\ StreamEnds(t, "failed", FALSE)
                 /\ UNCHANGED ws_sent
            [] ~st.cancel /\ st.pc = "created" ->
                 /\ answer = "ok"
                 /\ streams' = [streams EXCEPT ![t].pc = "requesting",
                                               ![t].generation_started_at = time_time]
                 /\ ws_sent' = IF connected THEN ws_sent \cup {event("typing")} ELSE ws_sent
                 /\ UNCHANGED <<user_stream_tasks, queue, stats>>
            [] ~st.cancel /\ st.pc = "requesting" ->
                 /\ answer \in {"ok", "error"}
                 /\ IF answer = "ok"
                    THEN /\ streams' = [streams EXCEPT ![t].pc = "streaming"]
                         /\ UNCHANGED <<user_stream_tasks, queue, stats, ws_sent>>
                    ELSE StreamFails(t)
            [] ~st.cancel /\ st.pc = "streaming" ->
                 CASE answer = "ok" ->
                        /\ st.full_response < MaxChunks
                        /\ streams' = [streams EXCEPT ![t].full_response = @ + 1]
                        /\ ws_sent' = IF connected THEN ws_sent \cup {event("stream")}
                                      ELSE ws_sent
                        /\ UNCHANGED <<user_stream_tasks, queue, stats>>
                   [] answer = "end" ->
                        IF connected
                        THEN /\ streams' = [streams EXCEPT ![t].pc = "completing"]
                             /\ ws_sent' = ws_sent \cup {event("complete")}
                             /\ UNCHANGED <<user_stream_tasks, queue, stats>>
                        ELSE /\ StreamEnds(t, "completed", TRUE)
                             /\ UNCHANGED ws_sent
                   [] OTHER -> StreamFails(t)
            [] ~st.cancel /\ st.pc = "completing" ->
                 /\ answer \in {"ok", "error"}
                 /\ IF answer = "ok"
                    THEN /\ StreamEnds(t, "completed", TRUE)
                         /\ UNCHANGED ws_sent
                    ELSE StreamFails(t)
            [] OTHER ->
                 /\ answer = "ok"
                 /\ StreamEnds(t, "failed", FALSE)
                 /\ UNCHANGED ws_sent
       /\ UNCHANGED <<active_connections, handler, time_time>>
       /\ UNCHANGED <<ledger_vars, job_vars, is_running, worker, messages, shutdown>>

\* time.time() moves on
TimePasses ==
    /\ time_time < MaxTime
    /\ time_time' = time_time + 1
    /\ UNCHANGED <<active_connections, user_stream_tasks, streams, handler, ws_sent>>
    /\ UNCHANGED <<ledger_vars, job_vars, queue_vars>>

(***************************************************************************)
(* The message queue's consumer side.  A worker task is a record; its pc   *)
(* is the await it is suspended at: created (not yet run), waiting (in     *)
(* wait_for(queue.get(), 1.0)), writing (the storage write of the message  *)
(* it holds), ended.  attempts counts the writes tried for a message.      *)
(***************************************************************************)
\* may a message whose write failed go back to the queue; and the same
\* with <= in place of <
retry_allowed_inclusive(retry_count) == retry_count <= max_retries

retry_allowed(retry_count) == retry_count < max_retries

\* _process_message counting a failure for every failed write, retried or not
process_message_counting_retries(q, st, msgs, message, result) ==
    IF result = "saved"
    THEN [queue |-> q, messages |-> Append(msgs, message),
          stats |-> [st EXCEPT !.messages_saved = @ + 1]]
    ELSE [queue |-> IF retry_allowed(message.retry_count)
                    THEN Append(q, [message EXCEPT !.retry_count = @ + 1])
                    ELSE q,
          messages |-> msgs,
          stats |-> [st EXCEPT !.messages_failed = @ + 1]]

\* _process_message: the write is saved, or failed and the message is put
\* back at the tail or dropped
process_message(q, st, msgs, message, result) ==
    IF result = "saved"
    THEN [queue |-> q, messages |-> Append(msgs, message),
          stats |-> [st EXCEPT !.messages_saved = @ + 1]]
    ELSE IF retry_allowed(message.retry_count)
    THEN [queue |-> Append(q, [message EXCEPT !.retry_count = @ + 1]),
          messages |-> msgs, stats |-> st]
    ELSE [queue |-> q, messages |-> msgs,
          stats |-> [st EXCEPT !.messages_failed = @ + 1]]

\* queue.get(): the head of the queue, about to be written
taken(q) == [Head(q) EXCEPT !.attempts = @ + 1]

\* does the loop of _process_remaining_messages go on
queue_not_empty(q) == q # << >>

\* MessageQueue.start: a queue that is running is left as it is
Start ==
    /\ IF ~is_running
       THEN /\ Len(worker) + 1 \in WorkerTasks
            /\ is_running' = TRUE
            /\ worker' = Append(worker, [pc |-> "created", message |-> NoMessage])
       ELSE UNCHANGED <<is_running, worker>>
    /\ UNCHANGED <<queue, stats, messages, shutdown>>
    /\ UNCHANGED <<ledger_vars, job_vars, chat_vars>>

\* a caller of the queue hands it a message of a conversation
AddMessage(conversation_id, role) ==
    LET a == add_message(queue, stats, conversation_id, role,
                         <<"prompt", stats.messages_queued + 1>>, NoTime, time_time)
    IN /\ stats.messages_queued < MaxMessages
       /\ queue' = a.queue
       /\ stats' = a.stats
       /\ UNCHANGED <<is_running, worker, messages, shutdown>>
       /\ UNCHANGED <<ledger_vars, job_vars, chat_vars>>

\* one step of worker task w of _worker, from the await it is suspended at
\* to the next; result is what the storage write answers
WorkerStep(w, result) ==
    LET wk == worker[w]
        r == process_message(queue, stats, messages, wk.message, result)
        loop == IF is_running THEN "waiting" ELSE "ended"
    IN /\ CASE wk.pc = "created" ->
                 /\ result = "saved"
                 /\ worker' = [worker EXCEPT ![w].pc = loop]
                 /\ UNCHANGED <<queue, stats, messages>>
            [] wk.pc = "waiting" /\ queue # << >> ->
                 /\ result = "saved"
                 /\ worker' = [worker EXCEPT ![w] = [pc |-> "writing", message |-> taken(queue)]]
                 /\ queue' = Tail(queue)
                 /\ UNCHANGED <<stats, messages>>
            [] wk.pc = "waiting" /\ queue = << >> ->
                 /\ result = "saved"
                 /\ ~is_running
                 /\ worker' = [worker EXCEPT ![w].pc = "ended"]
                 /\ UNCHANGED <<queue, stats, messages>>
            [] wk.pc = "writing" ->
                 /\ worker' = [worker EXCEPT ![w] = [pc |-> loop, message |-> NoMessage]]
                 /\ queue' = r.queue
                 /\ stats' = r.stats
                 /\ messages' = r.messages
            [] OTHER -> FALSE
       /\ UNCHANGED <<is_running, shutdown>>
       /\ UNCHANGED <<ledger_vars, job_vars, chat_vars>>

\* _process_remaining_messages from one await to the next: while the queue
\* is not empty its head is taken and written; then stop() returns
Drain(q, ran) ==
    IF queue_not_empty(q)
    THEN /\ shutdown' = [pc |-> "writing", task |-> shutdown.task,
                         message |-> taken(q), ran |-> ran]
         /\ queue' = Tail(q)
    ELSE /\ shutdown' = [pc |-> "returned", task |-> shutdown.task,
                         message |-> NoMessage, ran |-> ran]
         /\ queue' = q

\* MessageQueue.stop up to its first await: a queue that is not running is
\* left as it is
Stop ==
    /\ shutdown.pc \in {"none", "returned"}
    /\ IF is_running
       THEN /\ is_running' = FALSE
            /\ shutdown' = [pc |-> "await_worker", task |-> Len(worker),
                            message |-> NoMessage, ran |-> TRUE]
       ELSE /\ shutdown' = [pc |-> "returned", task |-> 0,
                            message |-> NoMessage, ran |-> FALSE]
            /\ UNCHANGED is_running
    /\ UNCHANGED <<queue, stats, worker, messages>>
    /\ UNCHANGED <<ledger_vars, job_vars, chat_vars>>

\* stop() resumes: the awaited worker has ended, or a write of the drain
\* has answered
StopStep(result) ==
    LET r == process_message(queue, stats, messages, shutdown.message, result)
    IN /\ CASE shutdown.pc = "await_worker" ->
                 /\ result = "saved"
                 /\ worker[shutdown.task].pc = "ended"
                 /\ Drain(queue, TRUE)
                 /\ UNCHANGED <<stats, messages>>
            [] shutdown.pc = "writing" ->
                 /\ Drain(r.queue, TRUE)
                 /\ stats' = r.stats
                 /\ messages' = r.messages
            [] OTHER -> FALSE
       /\ UNCHANGED <<is_running, worker>>
       /\ UNCHANGED <<ledger_vars, job_vars, chat_vars>>

\* a second passes on the monotonic clock
Tick ==
    /\ monotonic < MaxTicks
    /\ monotonic' = monotonic + 1
    /\ resp' = [NoResp EXCEPT !.op = "tick"]
    /\ UNCHANGED <<clock, token_pricing, user_subscriptions, usage_log, audit, hit,
                   agent_jobs, job_timeout_registry, dispatched, calls,
                   chat_vars, queue_vars>>

(***************************************************************************)
(* Calls of the billing engine that overlap: every await of                *)
(* get_or_create_user_subscription and log_usage is a step of its own, and *)
(* each call runs on its own database session.                             *)
(***************************************************************************)
\* where a call goes once it holds its account row
AfterAccount(op) == IF op = "log_usage" THEN "increment" ELSE "done"

\* a request arrives in slot c
StartCall(c, op, u, n) ==
    /\ calls[c].pc = "idle"
    /\ calls' = [calls EXCEPT ![c] =
                    [IdleCall EXCEPT !.op = op, !.user = u, !.tokens_used = n,
                         !.feature_used = "revision",
                         !.pc = IF op = "log_usage" THEN "pricing" ELSE "lookup"]]
    /\ UNCHANGED <<clock, token_pricing, user_subscriptions, usage_log, resp, audit,
                   hit, job_vars,
                   chat_vars, queue_vars>>

\* log_usage: await token_pricing.get_current_pricing
ReadPricing(c) ==
    LET rate == get_current_pricing(token_pricing, clock)
    IN /\ calls[c].pc = "pricing"
       /\ calls' = [calls EXCEPT ![c] =
                       IF rate = 0
                       THEN [@ EXCEPT !.pc = "done", !.outcome = "no_pricing"]
                       ELSE [@ EXCEPT !.pc = "insert", !.rate = rate,
                                 !.dollar_cost = dollar_cost(calls[c].tokens_used, rate, FALSE)]]
       /\ UNCHANGED <<clock, token_pricing, user_subscriptions, usage_log, resp,
                      audit, hit, job_vars,
                   chat_vars, queue_vars>>

\* log_usage: await usage_log.create
InsertUsage(c) ==
    /\ calls[c].pc = "insert"
    /\ usage_log' = Append(usage_log,
                       [user |-> calls[c].user,
                        feature_used |-> calls[c].feature_used,
                        tokens_used |-> calls[c].tokens_used,
                        dollar_cost |-> calls[c].dollar_cost,
                        status |-> calls[c].status,
                        request_id |-> calls[c].request_id])
    /\ calls' = [calls EXCEPT ![c] = [@ EXCEPT !.pc = "lookup"]]
    /\ UNCHANGED <<clock, token_pricing, user_subscriptions, resp, audit, hit, job_vars,
                   chat_vars, queue_vars>>

\* get_or_create_user_subscription: await get_by_user_id_and_period
LookupAccount(c) ==
    LET billing_period == get_current_billing_period(clock)
        existing == get_by_user_id_and_period(user_subscriptions, calls[c].user,
                                              billing_period)
    IN /\ calls[c].pc = "lookup"
       /\ calls' = [calls EXCEPT ![c] =
                       IF existing.raised
                       THEN [@ EXCEPT !.pc = "done", !.outcome = "raised"]
                       ELSE IF existing.id # 0
                       THEN [@ EXCEPT !.pc = AfterAccount(calls[c].op),
                                 !.sub_id = existing.id,
                                 !.outcome = IF calls[c].op = "log_usage" THEN "none"
                                             ELSE "found"]
                       ELSE [@ EXCEPT !.pc = "previous",
                                 !.billing_period = billing_period]]
       /\ UNCHANGED <<clock, token_pricing, user_subscriptions, usage_log, resp,
                      audit, hit, job_vars,
                   chat_vars, queue_vars>>

\* get_or_create_user_subscription: await get_active_subscription
ReadPrevious(c) ==
    LET previous == get_active_subscription(user_subscriptions, calls[c].user)
    IN /\ calls[c].pc = "previous"
       /\ calls' = [calls EXCEPT ![c] =
                       IF previous # 0
                       THEN [@ EXCEPT !.pc = "create",
                                 !.plan_name = user_subscriptions[previous].subscription_plan,
                                 !.refs = <<user_subscriptions[previous].stripe_customer_id,
                                            user_subscriptions[previous].stripe_subscription_id>>]
                       ELSE [@ EXCEPT !.pc = "create", !.plan_name = "Free"]]
       /\ UNCHANGED <<clock, token_pricing, user_subscriptions, usage_log, resp,
                      audit, hit, job_vars,
                   chat_vars, queue_vars>>

\* get_or_create_user_subscription: await user_subscription.create
CreateAccount(c) ==
    /\ calls[c].pc = "create"
    /\ user_subscriptions' =
         create_subscription(user_subscriptions, calls[c].user, calls[c].plan_name,
             calls[c].billing_period,
             get_billing_period_start_date(calls[c].billing_period),
             calls[c].refs[1], calls[c].refs[2])
    /\ audit' = Append(audit, [exact |-> 0, n |-> 0])
    /\ calls' = [calls EXCEPT ![c] =
                    [@ EXCEPT !.pc = AfterAccount(calls[c].op),
                         !.sub_id = Len(user_subscriptions) + 1,
                         !.outcome = IF calls[c].op = "log_usage" THEN "none"
                                     ELSE "created"]]
    /\ UNCHANGED <<clock, token_pricing, usage_log, resp, hit, job_vars,
                   chat_vars, queue_vars>>

\* log_usage: await increment_usage, one UPDATE .. RETURNING statement
IncrementUsage(c) ==
    LET rows == increment_usage(user_subscriptions, calls[c].sub_id,
                                calls[c].tokens_used, calls[c].dollar_cost)
    IN /\ calls[c].pc = "increment"
       /\ user_subscriptions' = rows
       /\ audit' = [audit EXCEPT ![calls[c].sub_id] =
                       [exact |-> @.exact + (calls[c].tokens_used * calls[c].rate),
                        n |-> @.n + 1]]
       /\ calls' = [calls EXCEPT ![c] =
                       [@ EXCEPT !.pc = "tier",
                            !.plan_name = rows[calls[c].sub_id].subscription_plan,
                            !.tokens_consumed = rows[calls[c].sub_id].tokens_consumed]]
       /\ UNCHANGED <<clock, token_pricing, usage_log, resp, hit, job_vars,
                   chat_vars, queue_vars>>

\* log_usage: await subscription_tier.get_by_plan_name, then the comparison
ReadTier(c) ==
    /\ calls[c].pc = "tier"
    /\ calls' = [calls EXCEPT ![c] =
                    IF limit_reached([subscription_plan |-> @.plan_name,
                                      tokens_consumed |-> @.tokens_consumed])
                    THEN [@ EXCEPT !.pc = "flip"]
                    ELSE [@ EXCEPT !.pc = "done", !.outcome = "logged"]]
    /\ UNCHANGED <<clock, token_pricing, user_subscriptions, usage_log, resp, audit,
                   hit, job_vars,
                   chat_vars, queue_vars>>

\* log_usage: await update_status(LIMIT_REACHED)
FlipStatus(c) ==
    /\ calls[c].pc = "flip"
    /\ user_subscriptions' = update_status(user_subscriptions, calls[c].sub_id,
                                           LIMIT_REACHED)
    /\ hit' = [hit EXCEPT ![calls[c].user] = "yes"]
    /\ calls' = [calls EXCEPT ![c] = [@ EXCEPT !.pc = "done", !.outcome = "logged"]]
    /\ UNCHANGED <<clock, token_pricing, usage_log, resp, audit, job_vars,
                   chat_vars, queue_vars>>

\* GET /precedents/embed_job/{job_id} arrives in slot c and runs up to its
\* first database await: the job is past its budget, or the precedent
\* service answers that it is completed
StartPoll(c, u, j) ==
    LET timed_out == is_timed_out(job_timeout_registry, "precedent", j, monotonic)
    IN /\ calls[c].pc = "idle"
       /\ timed_out \/ job_of(agent_jobs, "precedent", j).status = "completed"
       /\ calls' = [calls EXCEPT ![c] =
                       [IdleCall EXCEPT !.op = "log_usage", !.user = u,
                            !.tokens_used = IF timed_out THEN 0 ELSE agent_jobs[j].tokens,
                            !.feature_used = "precedent_embed", !.request_id = j,
                            !.status = IF timed_out THEN "TIMEOUT" ELSE "SUCCESS",
                            !.pc = "exists"]]
       /\ UNCHANGED <<clock, token_pricing, user_subscriptions, usage_log, resp, audit,
                      hit, job_vars, chat_vars, queue_vars>>

\* the poll's await exists_by_request_id: with an entry of the job id the
\* logging is skipped
CheckExists(c) ==
    /\ calls[c].pc = "exists"
    /\ calls' = [calls EXCEPT ![c] =
                    IF exists_by_request_id(usage_log, calls[c].user,
                                            calls[c].feature_used, calls[c].request_id)
                    THEN [@ EXCEPT !.pc = "done", !.outcome = "exists"]
                    ELSE [@ EXCEPT !.pc = "pricing"]]
    /\ UNCHANGED <<clock, token_pricing, user_subscriptions, usage_log, resp, audit,
                   hit, job_vars, chat_vars, queue_vars>>

\* the poll returns: a completed job leaves the registry, a timed out one
\* is answered 504
PollReturns(c) ==
    /\ calls[c].pc = "done"
    /\ calls[c].request_id # NULL
    /\ calls' = [calls EXCEPT ![c] = [@ EXCEPT !.pc = "returned"]]
    /\ job_timeout_registry' =
         IF calls[c].status = "SUCCESS"
         THEN remove_job(job_timeout_registry, "precedent", calls[c].request_id)
         ELSE job_timeout_registry
    /\ UNCHANGED <<clock, token_pricing, user_subscriptions, usage_log, resp, audit,
                   hit, agent_jobs, monotonic, dispatched, chat_vars, queue_vars>>

(***************************************************************************)
(* Spec: admission and the limit transition within one month.  Charges    *)
(* that reach, meet and pass the Free limit; webhooks that cancel, expire, *)
(* deactivate, reactivate and renew the account or move it to a plan       *)
(* without a tier.                                                         *)
(***************************************************************************)
LimitEvents(t) ==
    {StripeEvent(t, "Free", "cus_1", "sub_1", st, 0, 0, FALSE) :
        st \in {"active", "canceled", "incomplete_expired", "unpaid"}}
    \cup {StripeEvent(t, "Basic", "cus_1", "sub_1", "active", 0, 0, FALSE),
          StripeEvent(t, "Free", "cus_1", "sub_1", "active", 0, 3, TRUE)}

Next ==
    \/ \E u \in Users : CheckSubscriptionLimit(u)
    \/ \E u \in Users, n \in {50, 950} : LogUsage(u, "revision", n, NULL, FALSE)
    \/ \E u \in Users, e \in LimitEvents(clock) : UpdateSubscriptionFromStripe(u, e)

Spec == Init /\ [][Next]_vars

(***************************************************************************)
(* SpecStatus: what the engine itself does to an account's status between *)
(* webhooks that cancel, deactivate and reactivate it: lookups, checks and *)
(* charges that reach the Free limit, over the months.                     *)
(***************************************************************************)
StatusEvents(t) ==
    {StripeEvent(t, "Free", "cus_1", "sub_1", st, 0, 0, FALSE) :
        st \in {"active", "canceled", "unpaid"}}

NextStatus ==
    \/ \E u \in Users : GetOrCreateUserSubscription(u)
    \/ \E u \in Users : CheckSubscriptionLimit(u)
    \/ \E u \in Users, n \in {50, 950} : LogUsage(u, "revision", n, NULL, FALSE)
    \/ \E u \in Users, e \in StatusEvents(clock) : UpdateSubscriptionFromStripe(u, e)
    \/ AdvanceMonth

SpecStatus == Init /\ [][NextStatus]_vars

(***************************************************************************)
(* SpecPricing: costs and rounding.  Charges of 333 tokens and of 25       *)
(* tokens (an exact half thousandth at the seeded rate), before and after  *)
(* a rate change, with and without an applicable pricing row.              *)
(***************************************************************************)
PricingEvents(t) ==
    {StripeEvent(t, "Free", "cus_1", "sub_1", "active", 0, 3, TRUE)}

NextPricing ==
    \/ \E u \in Users : GetOrCreateUserSubscription(u)
    \/ \E u \in Users, n \in {25, 333}, tie_up \in BOOLEAN :
          LogUsage(u, "revision", n, NULL, tie_up)
    \/ \E u \in Users, e \in PricingEvents(clock) : UpdateSubscriptionFromStripe(u, e)
    \/ AdvanceMonth

SpecPricing == Init /\ [][NextPricing]_vars

(***************************************************************************)
(* SpecRollover: the first call of a new month.  The earlier account is on *)
(* the default plan or moved to Pro by a webhook, ACTIVE, LIMIT_REACHED or *)
(* canceled.                                                               *)
(***************************************************************************)
RolloverEvents(t) ==
    {StripeEvent(t, "Pro", "cus_1", "sub_1", st, 0, 0, FALSE) :
        st \in {"active", "canceled"}}

NextRollover ==
    \/ \E u \in Users : GetOrCreateUserSubscription(u)
    \/ \E u \in Users : LogUsage(u, "revision", FreeTokenLimit, NULL, FALSE)
    \/ \E u \in Users, e \in RolloverEvents(clock) : UpdateSubscriptionFromStripe(u, e)
    \/ AdvanceMonth

SpecRollover == Init /\ [][NextRollover]_vars

(***************************************************************************)
(* SpecStripe: webhooks of every provider status on accounts with usage,   *)
(* within one month, with and without the reset flag and the period start. *)
(***************************************************************************)
StripeEvents(t) ==
    {StripeEvent(t, "Pro", "cus_2", "sub_2", st, 0, 0, FALSE) : st \in StripeStatuses}
    \cup {StripeEvent(t, "Pro", "cus_2", "sub_2", "active", 0, 3, TRUE),
          StripeEvent(t, "Free", NULL, NULL, "canceled", 0, 0, TRUE),
          StripeEvent(t, "Pro", "cus_2", "sub_2", "past_due", 1, 20, FALSE)}

NextStripe ==
    \/ \E u \in Users : LogUsage(u, "revision", 400, NULL, FALSE)
    \/ \E u \in Users, e \in StripeEvents(clock) : UpdateSubscriptionFromStripe(u, e)

SpecStripe == Init /\ [][NextStripe]_vars

(***************************************************************************)
(* SpecJobs: the ingestion job life cycle and the precedent search, with   *)
(* direct log-usage calls that carry the job id and a cancelling webhook.  *)
(***************************************************************************)
JobEvents(t) ==
    {StripeEvent(t, "Free", "cus_1", "sub_1", "canceled", 0, 0, FALSE)}

NextJobs ==
    \/ \E u \in Users, j \in JobIds, status_code \in {200, 500} :
          ParseDocument(u, j, "p1", status_code)
    \/ \E j \in JobIds, status \in {"completed", "failed"} :
          JobCompletes(j, status, FreeTokenLimit)
    \/ \E u \in Users, j \in JobIds : GetJobStatus(u, j, FALSE)
    \/ \E u \in Users, outcome \in {"ok", "timeout", "error"} :
          SearchClauses(u, outcome, 400, FALSE)
    \/ \E u \in Users, j \in JobIds : LogUsage(u, "ingestion", 400, j, FALSE)
    \/ \E u \in Users, e \in JobEvents(clock) : UpdateSubscriptionFromStripe(u, e)
    \/ Tick

SpecJobs == Init /\ [][NextJobs]_vars

(***************************************************************************)
(* SpecConc: get-or-create and log-usage calls of one user in one month,   *)
(* interleaved at their awaits.                                            *)
(***************************************************************************)
NextConc ==
    \/ \E c \in Calls, op \in {"get_or_create", "log_usage"}, u \in Users :
          StartCall(c, op, u, 600)
    \/ \E c \in Calls : ReadPricing(c)
    \/ \E c \in Calls : InsertUsage(c)
    \/ \E c \in Calls : LookupAccount(c)
    \/ \E c \in Calls : ReadPrevious(c)
    \/ \E c \in Calls : CreateAccount(c)
    \/ \E c \in Calls : IncrementUsage(c)
    \/ \E c \in Calls : ReadTier(c)
    \/ \E c \in Calls : FlipStatus(c)

SpecConc == Init /\ [][NextConc]_vars

(***************************************************************************)
(* SpecRegistry: the job timeout registry on its own.  Two categories are  *)
(* registered, with two budgets and two projects; a third is only asked    *)
(* about.                                                                  *)
(***************************************************************************)
Categories == {"ingestion", "orchestrator", "precedent"}

NextRegistry ==
    \/ \E category \in {"ingestion", "orchestrator"}, j \in JobIds,
          timeout_seconds \in {1, 2}, project_id \in {"p1", "p2"} :
          RegisterJob(category, j, timeout_seconds, project_id, NULL)
    \/ \E category \in Categories, j \in JobIds : IsTimedOut(category, j)
    \/ \E category \in {"ingestion", "orchestrator"}, j \in JobIds :
          RemoveJob(category, j)
    \/ Tick

SpecRegistry == Init /\ [][NextRegistry]_vars

(***************************************************************************)
(* SpecRace: two polls of one embed job by one user, interleaved at their  *)
(* database awaits, for a job that completes or runs out of its budget.    *)
(***************************************************************************)
NextRace ==
    \/ \E u \in Users, j \in JobIds : EmbedPrecedent(u, j, 200)
    \/ \E j \in JobIds : JobCompletes(j, "completed", 600)
    \/ Tick
    \/ \E c \in Calls, u \in Users, j \in JobIds : StartPoll(c, u, j)
    \/ \E c \in Calls : CheckExists(c)
    \/ \E c \in Calls : ReadPricing(c)
    \/ \E c \in Calls : InsertUsage(c)
    \/ \E c \in Calls : LookupAccount(c)
    \/ \E c \in Calls : ReadPrevious(c)
    \/ \E c \in Calls : CreateAccount(c)
    \/ \E c \in Calls : IncrementUsage(c)
    \/ \E c \in Calls : ReadTier(c)
    \/ \E c \in Calls : FlipStatus(c)
    \/ \E c \in Calls : PollReturns(c)

SpecRace == Init /\ [][NextRace]_vars

(***************************************************************************)
(* SpecPolls: a job of one of the three agents is started, runs or         *)
(* finishes, and is polled through every status endpoint while the         *)
(* monotonic clock advances.                                               *)
(***************************************************************************)
NextPolls ==
    \/ \E u \in Users, j \in JobIds : ParseDocument(u, j, "p1", 200)
    \/ \E u \in Users, j \in JobIds : ProcessJson(u, j, "p1", 200)
    \/ \E u \in Users, j \in JobIds, status_code \in {200, 500} :
          EmbedPrecedent(u, j, status_code)
    \/ \E j \in JobIds, status \in {"completed", "failed"} :
          JobCompletes(j, status, 400)
    \/ \E u \in Users, j \in JobIds : GetJobStatus(u, j, FALSE)
    \/ \E u \in Users, j \in JobIds : GetJob(u, j)
    \/ \E u \in Users, j \in JobIds : GetJobApply(u, j)
    \/ \E u \in Users, j \in JobIds : GetEmbedJobStatus(u, j)
    \/ Tick

SpecPolls == Init /\ [][NextPolls]_vars

\* time passes and the clients keep polling: each of the four polling
\* endpoints is called again and again
SpecPollsFair ==
    /\ SpecPolls
    /\ WF_vars(Tick)
    /\ \A op \in {"get_job_status", "get_job", "get_job_apply",
                   "get_embed_job_status"} : []<>(resp.op = op)

(***************************************************************************)
(* SpecChat: one user connects, sends prompts of either format, all within *)
(* one conversation or all without, and disconnects, while the stream      *)
(* tasks run.                                                              *)
(* The queue's worker is not started, so the queue keeps every message in  *)
(* the order of the add_message calls.                                     *)
(***************************************************************************)
ConversationOfSession ==
    IF streams = << >> THEN Conversations \cup {NULL}
    ELSE {streams[1].conversation_id}

NextChat ==
    \/ \E u \in Users : Connect(u)
    \/ \E u \in Users : Disconnect(u)
    \/ \E u \in Users, conversation_id \in ConversationOfSession :
          HandleChatEvent(u, conversation_id)
    \/ \E u \in Users : ResumeChatEvent(u)
    \/ \E u \in Users, conversation_id \in ConversationOfSession :
          HandleLegacyMessage(u, conversation_id)
    \/ \E u \in Users : HistoryLoaded(u)
    \/ \E t \in DOMAIN streams, answer \in {"ok", "end", "error"} :
          StreamStep(t, answer)
    \/ TimePasses

SpecChat == Init /\ [][NextChat]_vars

(***************************************************************************)
(* SpecQueue: callers hand messages to the queue while it is started and   *)
(* stopped, its workers run and storage writes succeed or fail.            *)
(***************************************************************************)
NextQueue ==
    \/ Start
    \/ \E conversation_id \in Conversations : AddMessage(conversation_id, "user")
    \/ \E w \in DOMAIN worker, result \in {"saved", "failed"} : WorkerStep(w, result)
    \/ Stop
    \/ \E result \in {"saved", "failed"} : StopStep(result)

SpecQueue == Init /\ [][NextQueue]_vars


(***************************************************************************)
(* Vocabulary of the properties.                                           *)
(***************************************************************************)
\* the token limit of a plan that has a tier
TierLimit(plan) ==
    CASE plan = "Free" -> FreeTokenLimit
      [] plan = "Pro" -> ProTokenLimit
      [] OTHER -> EnterpriseTokenLimit

HasTier(plan) == plan \in {"Free", "Pro", "Enterprise"}

DeniedStatuses == {EXPIRED, CANCELED, INACTIVE, LIMIT_REACHED}

\* the account row the most recent call worked on
RespRow == RowAt(user_subscriptions, resp.sub_id)

\* C4 (as amended): an ACTIVE account below its limit L is admitted with
\* tokensRemaining = L - tokens_consumed; a recordUsage call that is not
\* rejected for missing pricing and brings tokens_consumed to L or beyond
\* leaves the account LIMIT_REACHED and returns limitReached = true; from
\* then on every checkLimit of that month is denied until a
\* reconcileFromPaymentProvider call for the user has run.
C4_LimitTransition ==
    /\ (resp.op = "check_limit" /\ RespRow.status = ACTIVE
            /\ HasTier(RespRow.subscription_plan))
        => /\ resp.allowed
           /\ resp.tokens_remaining
                = TierLimit(RespRow.subscription_plan) - RespRow.tokens_consumed
    /\ (resp.op = "log_usage" /\ resp.success
            /\ HasTier(RespRow.subscription_plan)
            /\ RespRow.tokens_consumed >= TierLimit(RespRow.subscription_plan))
        => /\ RespRow.status = LIMIT_REACHED
           /\ resp.limit_reached
    /\ (resp.op = "check_limit" /\ hit[resp.user] = "yes") => ~resp.allowed

\* C4 witness: the Free account took 950 then 50 tokens, was flipped at exactly
\* 1000, and the checkLimit that followed was denied
C4_Witness ==
    /\ resp.op = "check_limit"
    /\ hit[resp.user] = "yes"
    /\ ~resp.allowed
    /\ RespRow.subscription_plan = "Free"
    /\ RespRow.tokens_consumed = FreeTokenLimit
    /\ RespRow.status = LIMIT_REACHED

\* C4 as originally stated: any recordUsage call with tokensUsed >= k flips
\* the account, and every later checkLimit of that month is denied
C4_Original ==
    /\ C4_LimitTransition
    /\ (resp.op = "log_usage" /\ ~resp.success)
        => ~\E i \in DOMAIN user_subscriptions :
              LET row == user_subscriptions[i]
              IN /\ row.user = resp.user
                 /\ row.billing_period = strftime_Ym(utcnow(clock))
                 /\ row.status = ACTIVE
                 /\ HasTier(row.subscription_plan)
                 /\ row.tokens_consumed < TierLimit(row.subscription_plan)
                 /\ resp.tokens >= TierLimit(row.subscription_plan) - row.tokens_consumed
    /\ (resp.op = "check_limit" /\ hit[resp.user] # "no") => ~resp.allowed

\* C5: checkLimit denies exactly when the account's tier is missing or its
\* status is EXPIRED, CANCELED, INACTIVE or LIMIT_REACHED; otherwise it allows
\* with tokensRemaining = token_limit - tokens_consumed, negative or not.
C5_CheckLimitDecision ==
    (resp.op = "check_limit" /\ ~resp.raised)
        => /\ resp.sub_id \in DOMAIN user_subscriptions
           /\ resp.allowed <=> ~(\/ ~HasTier(RespRow.subscription_plan)
                                 \/ RespRow.status \in DeniedStatuses)
           /\ resp.allowed
                => resp.tokens_remaining
                     = TierLimit(RespRow.subscription_plan) - RespRow.tokens_consumed

\* C5 witness: a request allowed with a negative tokensRemaining
C5_Witness ==
    /\ resp.op = "check_limit"
    /\ resp.allowed
    /\ resp.tokens_remaining < 0

Abs(x) == IF x < 0 THEN -x ELSE x

\* the rows of user_id in billing period bp
RowsOf(rows, user_id, bp) ==
    {i \in DOMAIN rows : rows[i].user = user_id /\ rows[i].billing_period = bp}

\* no pricing row is applicable now
NoApplicablePricing ==
    \A i \in DOMAIN token_pricing :
        token_pricing[i].is_deleted \/ token_pricing[i].effective_date > clock

\* C1: after any sequence of recordUsage calls and job-status polls the
\* ledger holds at most one entry per (user, feature, non-empty request_id).
C1_OneEntryPerRequest ==
    \A i \in DOMAIN usage_log, k \in DOMAIN usage_log :
        (/\ i # k
         /\ usage_log[i].request_id # NULL
         /\ usage_log[i].user = usage_log[k].user
         /\ usage_log[i].feature_used = usage_log[k].feature_used)
        => usage_log[i].request_id # usage_log[k].request_id

RECURSIVE TokensLogged(_)
\* the tokens of the finished recordUsage calls not rejected for missing pricing
TokensLogged(S) ==
    IF S = {} THEN 0
    ELSE LET c == CHOOSE x \in S : TRUE
         IN (IF calls[c].op = "log_usage" /\ calls[c].outcome # "no_pricing"
             THEN calls[c].tokens_used ELSE 0)
            + TokensLogged(S \ {c})

AllReturned == \A c \in Calls : calls[c].pc \in {"idle", "done"}

\* C2: once all overlapping recordUsage calls of a user have returned, the
\* account of the month holds the sum of their tokensUsed.
C2_NoLostIncrement ==
    AllReturned =>
        \A u \in Users :
            LET total == TokensLogged({c \in Calls : calls[c].user = u})
                mine == RowsOf(user_subscriptions, u, get_current_billing_period(clock))
            IN /\ total > 0 => mine # {}
               /\ \A i \in mine : user_subscriptions[i].tokens_consumed = total

\* C3: overlapping getOrCreateAccount calls of a user leave at most one
\* account row for the month, and all of them return that row.
C3_OneAccountPerPeriod ==
    \A u \in Users :
        /\ Cardinality(RowsOf(user_subscriptions, u, get_current_billing_period(clock))) <= 1
        /\ \A c \in Calls, d \in Calls :
              (/\ calls[c].user = u /\ calls[d].user = u
               /\ calls[c].op = "get_or_create" /\ calls[d].op = "get_or_create"
               /\ calls[c].pc = "done" /\ calls[d].pc = "done")
              => (calls[c].outcome # "raised" /\ calls[c].sub_id = calls[d].sub_id)

\* C6: every request dispatched to an external agent passed the admission
\* check, and none is dispatched for a user whose account is LIMIT_REACHED,
\* CANCELED, EXPIRED or INACTIVE.
C6_DispatchOnlyAfterCheck ==
    \A d \in dispatched : d.checked /\ d.status \notin DeniedStatuses

\* the most recently created row among the given ones, 0 when there is none
Latest(S) == IF S = {} THEN 0 ELSE CHOOSE i \in S : \A k \in S : k <= i

\* the step of getOrCreateAccount, with the earlier rows it may carry from
RolloverStep(from) ==
    resp'.op = "get_or_create" =>
        LET P2 == strftime_Ym(utcnow(clock))
            had == RowsOf(user_subscriptions, resp'.user, P2) # {}
            src == Latest(from)
            new == user_subscriptions'[Len(user_subscriptions')]
        IN IF had
           THEN /\ ~resp'.created
                /\ user_subscriptions' = user_subscriptions
           ELSE /\ resp'.created
                /\ Len(user_subscriptions') = Len(user_subscriptions) + 1
                /\ SubSeq(user_subscriptions', 1, Len(user_subscriptions))
                     = user_subscriptions
                /\ new.user = resp'.user
                /\ new.billing_period = P2
                /\ new.start_date = <<P2[1], P2[2], 1>>
                /\ new.tokens_consumed = 0
                /\ new.subscription_plan =
                     IF src = 0 THEN "Free" ELSE user_subscriptions[src].subscription_plan
                /\ new.stripe_customer_id =
                     IF src = 0 THEN NULL ELSE user_subscriptions[src].stripe_customer_id
                /\ new.stripe_subscription_id =
                     IF src = 0 THEN NULL ELSE user_subscriptions[src].stripe_subscription_id

\* C7 (as amended): getOrCreateAccount in a period P2 without an account of
\* the user creates exactly one row for P2 with tokens_consumed = 0 and
\* start_date the first day of P2; its plan and external references are
\* those of the user's most recently created account whose status is ACTIVE
\* or LIMIT_REACHED, and "Free" without references when there is none.
\* Every earlier row is left unchanged.
C7_RolloverCarriesPlan ==
    [][RolloverStep({i \in DOMAIN user_subscriptions :
                        /\ user_subscriptions[i].user = resp'.user
                        /\ user_subscriptions[i].status \in {ACTIVE, LIMIT_REACHED}})]_vars

\* C7 witness: the Pro plan and the references of the December account,
\* which keeps its usage, were carried to the January account
C7_Witness ==
    /\ resp.op = "get_or_create"
    /\ resp.created
    /\ Len(user_subscriptions) = 2
    /\ user_subscriptions[1].billing_period = <<2025, 12>>
    /\ user_subscriptions[1].subscription_plan = "Pro"
    /\ user_subscriptions[1].tokens_consumed > 0
    /\ user_subscriptions[2].billing_period = <<2026, 1>>
    /\ user_subscriptions[2].subscription_plan = "Pro"
    /\ user_subscriptions[2].stripe_customer_id = "cus_1"
    /\ user_subscriptions[2].tokens_consumed = 0

\* C7 as originally stated: the plan is carried from the user's most recent
\* account, whatever its status
C7_Original ==
    [][RolloverStep({i \in DOMAIN user_subscriptions :
                        user_subscriptions[i].user = resp'.user})]_vars

\* C8: recordUsage without an applicable pricing row returns success = false
\* and limitReached = false, raises nothing, and leaves the ledger and every
\* account as they were.
C8_NoPricingNoChange ==
    [][(resp'.op = "log_usage" /\ NoApplicablePricing)
          => /\ ~resp'.success
             /\ ~resp'.raised
             /\ ~resp'.limit_reached
             /\ usage_log' = usage_log
             /\ user_subscriptions' = user_subscriptions]_vars

\* C8 witness: a rejected recordUsage with an account present and an empty ledger
C8_Witness ==
    /\ resp.op = "log_usage"
    /\ ~resp.success
    /\ resp.message = "Token pricing not configured"
    /\ NoApplicablePricing
    /\ Len(user_subscriptions) = 1
    /\ usage_log = << >>

\* C9: the cost of a charge is tokens/1000 * rate rounded to the nearest
\* thousandth (333 tokens at 0.02 cost 0.007); a charge adds exactly that
\* cost to dollar_spent; and dollar_spent stays within 0.001 per charge of
\* the unrounded total.
C9_DollarCostRounding ==
    /\ []((resp.op = "log_usage" /\ resp.success) =>
            LET entry == usage_log[Len(usage_log)]
                usd_per_1k == get_current_pricing(token_pricing, clock)
            IN /\ entry.tokens_used = resp.tokens
               /\ 2 * Abs((entry.dollar_cost * 1000) - (resp.tokens * usd_per_1k)) <= 1000
               /\ (resp.tokens = 333 /\ usd_per_1k = 20) => entry.dollar_cost = 7)
    /\ [](\A i \in DOMAIN user_subscriptions :
            Abs((user_subscriptions[i].dollar_spent * 1000) - audit[i].exact)
                <= 1000 * audit[i].n)
    /\ [][(resp'.op = "log_usage" /\ resp'.success) =>
            user_subscriptions'[resp'.sub_id].dollar_spent
              = (IF resp'.created THEN 0
                 ELSE user_subscriptions[resp'.sub_id].dollar_spent)
                + usage_log'[Len(usage_log')].dollar_cost]_vars

\* C9 witness: two charges of 333 tokens at 0.02: 0.014 spent, 0.01332 exact
C9_Witness ==
    /\ resp.op = "log_usage"
    /\ resp.success
    /\ resp.tokens = 333
    /\ audit[resp.sub_id].n = 2
    /\ audit[resp.sub_id].exact = 13320
    /\ RespRow.dollar_spent = 14

\* C10: reconcileFromPaymentProvider leaves the account it worked on with the
\* status mapped from the provider's status, with the given plan and
\* references, and with counters zeroed under resetUsage and unchanged
\* without it.
C10_ReconcileSetsAccount ==
    [][(resp'.op = "reconcile" /\ ~resp'.raised) =>
          LET e == resp'.event
              row == user_subscriptions'[resp'.sub_id]
              before == IF resp'.created THEN NoRow
                        ELSE user_subscriptions[resp'.sub_id]
          IN /\ e.status \in {"active", "trialing"} => row.status = ACTIVE
             /\ e.status = "canceled" => row.status = CANCELED
             /\ e.status \in {"incomplete", "past_due", "unpaid"} => row.status = INACTIVE
             /\ e.status = "incomplete_expired" => row.status = EXPIRED
             /\ row.subscription_plan = e.plan
             /\ row.stripe_customer_id = e.refs[1]
             /\ row.stripe_subscription_id = e.refs[2]
             /\ e.reset => (row.tokens_consumed = 0 /\ row.dollar_spent = 0)
             /\ ~e.reset => /\ row.tokens_consumed = before.tokens_consumed
                            /\ row.dollar_spent = before.dollar_spent]_vars

\* C10 witness: a past_due webhook without reset left an account with usage
\* INACTIVE on the Pro plan, counters kept
C10_Witness ==
    /\ resp.op = "reconcile"
    /\ ~resp.raised
    /\ resp.event.status = "past_due"
    /\ ~resp.event.reset
    /\ RespRow.status = INACTIVE
    /\ RespRow.subscription_plan = "Pro"
    /\ RespRow.stripe_customer_id = "cus_2"
    /\ RespRow.tokens_consumed = 400
    /\ RespRow.dollar_spent > 0

\* has the budget of a registry entry run out
BudgetSpent(entries, key, now) ==
    /\ key \in DOMAIN entries
    /\ now - entries[key].started_monotonic >= entries[key].timeout_seconds

\* C11: isTimedOut answers true exactly for a key that is in the registry
\* with at least timeout_seconds elapsed since its registration (the
\* entry's start is the monotonic time of the call that added it), false
\* for an absent key, and never true then false while the entry stays.
C11_TimedOutExactly ==
    /\ [](resp.op = "is_timed_out" =>
            (resp.timed_out <=> BudgetSpent(job_timeout_registry, resp.key, monotonic)))
    /\ [][\A key \in DOMAIN job_timeout_registry' :
            key \notin DOMAIN job_timeout_registry
                => job_timeout_registry'[key].started_monotonic = monotonic]_vars
    /\ [][\A key \in (DOMAIN job_timeout_registry) \cap (DOMAIN job_timeout_registry') :
            BudgetSpent(job_timeout_registry, key, monotonic)
                => BudgetSpent(job_timeout_registry', key, monotonic')]_vars

\* C11 witness: the budget of 2 seconds of a registered job is met exactly
C11_Witness ==
    /\ resp.op = "is_timed_out"
    /\ resp.timed_out
    /\ job_timeout_registry[resp.key].timeout_seconds = 2
    /\ monotonic - job_timeout_registry[resp.key].started_monotonic = 2

\* C12: a register call leaves every entry that was present as it was, that
\* of its own key included, and adds an entry only for its own key.
C12_RegisterFirstWins ==
    [][resp'.op = "register" =>
          /\ DOMAIN job_timeout_registry'
               = (DOMAIN job_timeout_registry) \cup {resp'.key}
          /\ \A key \in DOMAIN job_timeout_registry :
                job_timeout_registry'[key] = job_timeout_registry[key]]_vars

\* C12 witness: a later registration with another budget and project left
\* the first registration's entry in place
C12_Witness ==
    /\ resp.op = "register"
    /\ resp.key \in DOMAIN job_timeout_registry
    /\ job_timeout_registry[resp.key].started_monotonic < monotonic
    /\ job_timeout_registry[resp.key].timeout_seconds # resp.arg[1]
    /\ job_timeout_registry[resp.key].project_id # resp.arg[2]

\* the feature a category's polls log under
FeatureOf(category) ==
    CASE category = "ingestion" -> "ingestion"
      [] category = "orchestrator" -> "orchestrator"
      [] OTHER -> "precedent_embed"

\* the three status polls, and with them the orchestrator's apply endpoint,
\* which logs on its own account
StatusPollOps == {"get_job_status", "get_job", "get_embed_job_status"}
PollOps == StatusPollOps \cup {"get_job_apply"}

\* the positions in the usage log of the entries of a user keyed by a job
EntriesOf(usage, user_id, key) ==
    {i \in DOMAIN usage : /\ usage[i].user = user_id
                          /\ usage[i].feature_used = FeatureOf(key[1])
                          /\ usage[i].request_id = key[2]}

\* the tokens consumed over all account rows
RECURSIVE TokensConsumed(_)
TokensConsumed(rows) ==
    IF rows = <<>> THEN 0
    ELSE rows[1].tokens_consumed + TokensConsumed(Tail(rows))

RunningStreams(u) ==
    {t \in DOMAIN streams : streams[t].user = u /\ ~done(streams, t)}

\* C14: at no time has a user two stream tasks that have not ended, whatever
\* the formats of the prompts and whenever the user disconnects.
C14_OneStreamPerUser ==
    \A u \in Users : Cardinality(RunningStreams(u)) <= 1

\* the positions in the queue of the assistant messages of stream t, and
\* of the user message of prompt p
AssistantMessages(t) ==
    {i \in DOMAIN queue : queue[i].role = "assistant" /\ queue[i].content[1] = t}

UserMessages(p) ==
    {i \in DOMAIN queue : queue[i].role = "user" /\ queue[i].content = <<"prompt", p>>}

C17_FailurePersistsPartial ==
    \A t \in DOMAIN streams :
        (/\ streams[t].outcome = "failed"
         /\ streams[t].conversation_id # NULL
         /\ streams[t].full_response > 0)
        => /\ [type |-> "error", user |-> streams[t].user, stream |-> t] \in ws_sent
           /\ AssistantMessages(t) # {}

\* the messages the consumers of the queue hold, each with the consumer
InHand ==
    {<<w, worker[w].message>> : w \in {v \in DOMAIN worker : worker[v].pc = "writing"}}
      \cup (IF shutdown.pc = "writing" THEN {<<0, shutdown.message>>} ELSE {})

\* did the consumer c, holding message m, end a write that failed
FailedWrite(c, m) ==
    /\ <<c, m>> \in InHand
    /\ messages' = messages
    /\ IF c = 0 THEN shutdown' # shutdown ELSE worker'[c] # worker[c]

\* C18: retry_count never exceeds 3 and no message is written more than 4
\* times; a failed write of a message with retry_count < 3 puts it back at
\* the tail with retry_count + 1 and counts no failure, and a failed write
\* at retry_count = 3 drops it and adds exactly one to messages_failed.
C18_RetryBounded ==
    /\ [](/\ \A i \in DOMAIN queue :
                /\ queue[i].retry_count <= max_retries
                /\ queue[i].attempts = queue[i].retry_count
          /\ \A h \in InHand :
                /\ h[2].retry_count <= max_retries
                /\ h[2].attempts = h[2].retry_count + 1
                /\ h[2].attempts <= max_retries + 1)
    /\ [][\A h \in InHand :
            FailedWrite(h[1], h[2]) =>
               LET m == h[2]
                   put == Append(queue, [m EXCEPT !.retry_count = @ + 1])
               IN IF m.retry_count < max_retries
                  THEN /\ queue' = put \/ (h[1] = 0 /\ queue' = Tail(put))
                       /\ stats' = stats
                  ELSE /\ queue' = queue \/ (h[1] = 0 /\ queue # << >> /\ queue' = Tail(queue))
                       /\ stats' = [stats EXCEPT !.messages_failed = @ + 1]]_vars

\* C18 witness: a message was dropped on its fourth failed write while
\* another was saved after a retry
C18_Witness ==
    /\ stats.messages_failed = 1
    /\ stats.messages_saved = 1
    /\ \E i \in DOMAIN messages : messages[i].retry_count > 0
    /\ queue = << >>
    /\ InHand = {}

\* the prompts of the messages handed to the queue that are not stored
Missing ==
    {n \in 1 .. stats.messages_queued :
        \A i \in DOMAIN messages : messages[i].content # <<"prompt", n>>}

\* C19: when stop() returns the queue is empty, and the messages that are
\* not in storage are as many as messages_failed counts, none when no
\* write failed.
C19_StopDrains ==
    [][(shutdown.pc # "returned" /\ shutdown'.pc = "returned") =>
          /\ queue' = << >>
          /\ Cardinality(Missing') = stats'.messages_failed]_vars

ActiveOverLimit(rows) ==
    {i \in DOMAIN rows :
        /\ rows[i].status = ACTIVE
        /\ HasTier(rows[i].subscription_plan)
        /\ rows[i].tokens_consumed >= TierLimit(rows[i].subscription_plan)}

C21_OneRowPerPeriod ==
    [][/\ \A i, j \in DOMAIN user_subscriptions' :
             (/\ user_subscriptions'[i].user = user_subscriptions'[j].user
              /\ user_subscriptions'[i].billing_period
                   = user_subscriptions'[j].billing_period) => i = j
       /\ clock' = clock
            => \A i \in DOMAIN user_subscriptions :
                  (/\ user_subscriptions[i].billing_period
                        = get_current_billing_period(clock)
                   /\ user_subscriptions[i].tokens_consumed > 0)
                  => get_by_user_id_and_period(user_subscriptions',
                         user_subscriptions[i].user,
                         get_current_billing_period(clock)).id = i]_vars

\* C22: a job's entry leaves the timeout registry only in a state whose
\* usage log holds an entry of the polling user keyed by that job id.
C22_RemovedOnlyAfterBilled ==
    [][\A key \in (DOMAIN job_timeout_registry) \ (DOMAIN job_timeout_registry') :
          EntriesOf(usage_log', resp'.user, key) # {}]_vars

\* the job of a registry key has reached a terminal outcome: its budget is
\* spent or the agent reports it completed, failed or in error
Terminal(key) ==
    /\ key \in DOMAIN job_timeout_registry
    /\ \/ is_timed_out(job_timeout_registry, key[1], key[2], monotonic)
       \/ job_of(agent_jobs, key[1], key[2]).status \in {"completed", "failed", "error"}

\* the job's usage is recorded and its registry entry is gone
Released(key) ==
    /\ key \notin DOMAIN job_timeout_registry
    /\ \E u \in Users : EntriesOf(usage_log, u, key) # {}

\* C23: every registered job that reaches a terminal outcome eventually has
\* its usage recorded and its registry entry removed.
C23_TerminalJobReleased ==
    \A category \in Categories, j \in JobIds :
        Terminal(<<category, j>>) ~> Released(<<category, j>>)

\* C24: overlapping status polls of one job by one user write at most one
\* usage entry for (user, feature, job id) and charge the account at most
\* the job's tokens once.
C24_ConcurrentPollsLogOnce ==
    \A u \in Users, j \in JobIds :
        /\ Cardinality(EntriesOf(usage_log, u, <<"precedent", j>>)) <= 1
        /\ TokensConsumed(user_subscriptions) <= agent_jobs[j].tokens

\* C25: a usage entry keyed by a job id is written only by a poll that found
\* the job completed or past its budget, it is the only entry of that user,
\* feature and job id, and for a completed job it carries the job's token
\* total.
C25_LoggedOnceAtTerminal ==
    [][\A i \in (DOMAIN usage_log') \ (DOMAIN usage_log) :
          usage_log'[i].request_id # NULL
          => LET key == resp'.key
                 timed_out == is_timed_out(job_timeout_registry, key[1], key[2],
                                           monotonic)
                 job == job_of(agent_jobs, key[1], usage_log'[i].request_id)
             IN /\ timed_out \/ job.status = "completed"
                /\ EntriesOf(usage_log', usage_log'[i].user, key) = {i}
                /\ ~timed_out => usage_log'[i].tokens_used = job.tokens]_vars

\* C26: when a disconnect of a user returns, every stream task the user had
\* running has ended, one that had content for a conversation has its
\* assistant message in the queue, and the user has neither a stream task
\* nor a connection registered.
C26_DisconnectDrains ==
    [][\A u \in active_connections \ active_connections' :
          /\ user_stream_tasks'[u] = NoTask
          /\ \A t \in RunningStreams(u) :
                /\ done(streams', t)
                /\ (streams[t].conversation_id # NULL /\ streams[t].full_response > 0)
                      => \E i \in DOMAIN queue' :
                            /\ queue'[i].role = "assistant"
                            /\ queue'[i].content = <<t, streams[t].full_response>>]_vars

\* the worker tasks in the loop of _worker: waiting for a message of the
\* queue or writing the one they took
LiveWorkers == {w \in DOMAIN worker : worker[w].pc \in {"waiting", "writing"}}

\* C27: at no time are two worker tasks consuming from the queue, however
\* start() and stop() are called and interleaved, a start() during stop()'s
\* wait for the previous worker included.
C27_SingleWorker ==
    Cardinality(LiveWorkers) <= 1

\* C28: a step of recordUsage, checkLimit or getOrCreateAccount never turns
\* the status of an existing account into ACTIVE, and a checkLimit of a user
\* whose account of the current period is LIMIT_REACHED, CANCELED, EXPIRED
\* or INACTIVE answers allowed = false; only a reconcile or the account of
\* a new period readmits the user.
C28_EngineNeverReactivates ==
    [][resp'.op \in {"log_usage", "check_limit", "get_or_create"} =>
          /\ \A i \in DOMAIN user_subscriptions :
                user_subscriptions'[i].status = ACTIVE
                   => user_subscriptions[i].status = ACTIVE
          /\ \A i \in DOMAIN user_subscriptions :
                (/\ resp'.op = "check_limit"
                 /\ user_subscriptions[i].user = resp'.user
                 /\ user_subscriptions[i].billing_period = get_current_billing_period(clock)
                 /\ user_subscriptions[i].status \in DeniedStatuses)
                => (~resp'.raised /\ ~resp'.allowed)]_vars

\* C28 witness: the account was deactivated by a webhook, usage was then
\* recorded on it, and the checkLimit that follows denies
C28_Witness ==
    /\ resp.op = "check_limit"
    /\ ~resp.allowed
    /\ RespRow.status = INACTIVE
    /\ RespRow.tokens_consumed > 0
    /\ usage_log # << >>

\* C29: the account getOrCreateAccount creates in a period without one is
\* ACTIVE with tokens_consumed = 0 whatever the statuses of the user's
\* earlier accounts; its plan is that of the latest created ACTIVE or
\* LIMIT_REACHED account of the user, of any period, and the default plan
\* when there is none.
C29_NewAccountStartsActive ==
    [][(resp'.op = "get_or_create" /\ resp'.created) =>
          LET new == user_subscriptions'[resp'.sub_id]
              carried == {i \in DOMAIN user_subscriptions :
                             /\ user_subscriptions[i].user = resp'.user
                             /\ user_subscriptions[i].status \in {ACTIVE, LIMIT_REACHED}}
          IN /\ resp'.sub_id \notin DOMAIN user_subscriptions
             /\ RowsOf(user_subscriptions, resp'.user, get_current_billing_period(clock)) = {}
             /\ new.status = ACTIVE
             /\ new.tokens_consumed = 0
             /\ new.billing_period = get_current_billing_period(clock)
             /\ new.subscription_plan =
                  IF carried = {} THEN "Free"
                  ELSE user_subscriptions[Latest(carried)].subscription_plan]_vars

\* C29 witness: the December account was moved to Pro and canceled; the
\* January account starts ACTIVE, empty and on the default plan
C29_Witness ==
    /\ resp.op = "get_or_create"
    /\ resp.created
    /\ Len(user_subscriptions) = 2
    /\ user_subscriptions[1].status = CANCELED
    /\ user_subscriptions[1].subscription_plan = "Pro"
    /\ user_subscriptions[2].status = ACTIVE
    /\ user_subscriptions[2].tokens_consumed = 0
    /\ user_subscriptions[2].subscription_plan = "Free"
    /\ user_subscriptions[2].billing_period # user_subscriptions[1].billing_period

\* the messages in storage that hold prompt n
Stored(n) == {i \in DOMAIN messages : messages[i].content = <<"prompt", n>>}

\* C30: messages_queued is the sum of messages_saved, messages_failed, the
\* messages in the queue and the messages a consumer holds; every message
\* handed to the queue is in exactly one of these places, so a retry adds
\* nothing to messages_queued and no message is counted twice, as saved and
\* as failed or twice as either.
C30_StatsAccountForMessages ==
    /\ stats.messages_queued
         = stats.messages_saved + stats.messages_failed
             + Len(queue) + Cardinality(InHand)
    /\ stats.messages_saved = Len(messages)
    /\ \A n \in 1 .. stats.messages_queued :
          LET waiting == {i \in DOMAIN queue : queue[i].content = <<"prompt", n>>}
              held == {h \in InHand : h[2].content = <<"prompt", n>>}
          IN /\ Cardinality(Stored(n)) + Cardinality(waiting) + Cardinality(held) <= 1
             /\ stats.messages_failed
                  = Cardinality({k \in 1 .. stats.messages_queued :
                       /\ Stored(k) = {}
                       /\ \A i \in DOMAIN queue : queue[i].content # <<"prompt", k>>
                       /\ \A h \in InHand : h[2].content # <<"prompt", k>>})

\* C30 witness: of two messages one was dropped after its last retry and
\* the other is held by a consumer for a retry
C30_Witness ==
    /\ stats.messages_queued = 2
    /\ stats.messages_failed = 1
    /\ stats.messages_saved = 0
    /\ \E h \in InHand : h[2].retry_count > 0

====
